---- MODULE Spec2Model ----
(***************************************************************************)
(* Model of the strava-data-pipeline service: the API-key store and its    *)
(* validation, the session tokens (JWT), the activity store with its       *)
(* upsert, the sync cycle (Client.FetchActivities) and the OAuth callback. *)
(*                                                                         *)
(* Time is counted in ticks; a second has TicksPerSecond ticks, so that    *)
(* time.Now() has a sub-second part and the conversions to whole seconds   *)
(* (Time.Unix, Format(time.RFC3339)) really truncate.                      *)
(***************************************************************************)
EXTENDS Integers, Sequences, FiniteSets, TLC

VARIABLES
    now,            \* time.Now(), in ticks
    api_keys,       \* rows of table api_keys
    nextKeyID,      \* the BIGSERIAL sequence of api_keys.id
    lastValidate,   \* what the DB.ValidateAPIKey call that just returned saw
                    \* and returned (cleared by the next operation)
    lastGenerate,   \* the last Service.GenerateAPIKey call and its outcome
    lastKeyDelete,  \* the DB.DeleteAPIKey call the caller has just made and
                    \* its outcome (kept while the caller reads by id)
    lastKeyOp,      \* what the DB.ReadAPIKeyByID or DB.UpdateAPIKey call
                    \* that just returned was given and returned
    tokenDuration,  \* config.Auth.TokenDuration, in minutes
    lastIssue,      \* the last Service.GenerateJWT call and the token it made
    lastJWT,        \* what the Service.ValidateJWT call that just returned
                    \* was given and returned (cleared by the next operation)
    activities,     \* rows of table activities
    lastUpsert,     \* what the DB.CreateActivity call that just returned was
                    \* given, found and returned (cleared likewise)
    lastGet,        \* what the DB.GetActivityByID call that just returned
                    \* was asked and returned (cleared likewise)
    lastDelete,     \* the DB.DeleteActivity call the caller has just made
                    \* and its outcome (kept while the caller reads by id)
    applied,        \* history: per id, the data of the upsert applied last
                    \* and the time of the insert that made the present row
    remote,         \* the athlete's activities at the provider
    clientToken,    \* the access token of Client.client
    tokenExpired,   \* the provider no longer accepts that token
    ticker,         \* the ticks held by the channel of the scheduler's ticker
    sync,           \* per sync goroutine: its position in FetchActivities,
                    \* its locals, what it logged and returned
    users,          \* rows of table users
    configToken,    \* config.Strava.AccessToken
    lastCallback,   \* what the stravaCallbackHandler call that just returned
                    \* was given, did and answered (cleared likewise)
    lastRefresh,    \* what the Client.RefreshToken call that just returned
                    \* was given, found, did and returned (cleared likewise)
    calls,          \* per goroutine inside Client.HandleAuthCallback or
                    \* Client.RefreshToken: its position and what the
                    \* provider answered it
    lastRequest     \* the HTTP request a middleware just dealt with: what it
                    \* carried, the answer of the middleware, whether the
                    \* handler behind it ran and with which context

keyVars ==
    <<api_keys, nextKeyID, lastValidate, lastGenerate, lastKeyDelete, lastKeyOp>>

jwtVars == <<tokenDuration, lastIssue, lastJWT>>

storeVars == <<activities, lastUpsert, lastGet, lastDelete, applied>>

syncVars == <<remote, clientToken, tokenExpired, sync, ticker>>

authVars == <<users, configToken, lastCallback, lastRefresh>>

reqVars == <<lastRequest>>

callVars == <<calls>>

vars ==
    <<now, keyVars, jwtVars, storeVars, syncVars, authVars, reqVars, callVars>>

\* what the operations on API keys leave alone
notKeys == <<jwtVars, storeVars, syncVars, authVars, reqVars, callVars>>

\* what the operations on session tokens leave alone
notJWT == <<keyVars, storeVars, syncVars, authVars, reqVars, callVars>>

\* what the operations on the activity store leave alone
notStore == <<keyVars, jwtVars, syncVars, authVars, reqVars, callVars>>

\* what the OAuth callback and the operations on users leave alone
notAuth == <<keyVars, storeVars, remote, sync, ticker, reqVars, callVars>>

\* what a sync cycle leaves alone besides the activity store
notSync == <<keyVars, jwtVars, authVars, reqVars, callVars>>

\* what the middlewares leave alone
notReq == <<keyVars, jwtVars, storeVars, syncVars, authVars, callVars>>

-----------------------------------------------------------------------------
(* Time *)

TicksPerSecond == 2

SecondsPerDay == 86400

DaysPerYear == 365

TravelYears == 10

StartDays == 3

Second == TicksPerSecond

Day == SecondsPerDay * Second

TenYears == TravelYears * DaysPerYear * Day

\* the instant of process start: a whole second, StartDays after the epoch
StartTime == StartDays * Day

\* time.Time{} : the zero value of time.Time
ZeroTime == 0

\* Time.IsZero
IsZero(t) == t = ZeroTime

\* Time.Unix : whole seconds, the sub-second part is dropped
Unix(t) == t \div TicksPerSecond

\* time.Unix(sec, 0)
FromUnix(sec) == sec * TicksPerSecond

\* Time.Before
Before(t, u) == t < u

\* Time.Format(time.RFC3339) : the layout has no fractional seconds
FormatRFC3339(t) == [kind |-> "ok", sec |-> Unix(t)]

\* a nil *string, and a string that is not RFC3339
NilString == [kind |-> "nil", sec |-> 0]

BadString == [kind |-> "bad", sec |-> 0]

\* time.Parse(time.RFC3339, s)
ParseRFC3339(s) ==
    IF s.kind = "ok" THEN [ok |-> TRUE, t |-> FromUnix(s.sec)]
                     ELSE [ok |-> FALSE, t |-> ZeroTime]

-----------------------------------------------------------------------------
(* API keys: table api_keys and its operations *)

KeyMaterial == {"k1", "k2"}

MaxKeyID == 2

NoUser == 0

NoRow ==
    [id |-> 0, key |-> "", description |-> "", created_at |-> ZeroTime,
     expires_at |-> ZeroTime, is_active |-> FALSE, user_id |-> NoUser]

\* a row as CreateAPIKey's INSERT stores it: created_at and is_active take
\* their column defaults, user_id stays NULL
NewAPIKeyRow(id, key, description, expiresAtTime) ==
    [id |-> id, key |-> key, description |-> description,
     created_at |-> now, expires_at |-> expiresAtTime,
     is_active |-> TRUE, user_id |-> NoUser]

\* SELECT ... FROM api_keys WHERE key = $1
RowsByKey(key) == {r \in api_keys : r.key = key}

\* SELECT ... FROM api_keys WHERE id = $1
RowsByID(id) == {r \in api_keys : r.id = id}

\* the decision of DB.ValidateAPIKey on the row db.Get scanned
KeyRowValidNoActive(row, t) ==
    ~(~IsZero(row.expires_at) /\ Before(row.expires_at, t))

KeyRowValid(row, t) ==
    /\ row.is_active
    /\ ~(~IsZero(row.expires_at) /\ Before(row.expires_at, t))

\* DB.ValidateAPIKey(key) evaluated in the current state
ValidateAPIKey(key) ==
    IF RowsByKey(key) = {} THEN FALSE
    ELSE KeyRowValid(CHOOSE r \in RowsByKey(key) : TRUE, now)

\* the expiry argument Service.GenerateAPIKey passes to CreateAPIKey
GenerateExpiresAtAlways(expiryDays) ==
    FormatRFC3339(now + expiryDays * Day)

GenerateExpiresAt(expiryDays) ==
    IF expiryDays > 0 THEN FormatRFC3339(now + expiryDays * Day)
                      ELSE NilString

\* DB.CreateAPIKey : the parse of expiresAt, then the INSERT. key is UNIQUE,
\* so the INSERT fails when a row holds the key already (the id sequence has
\* advanced by then); dbOk = FALSE is any other failure of the statement.
CreateAPIKeyOutcome(key, description, expiresAt, dbOk) ==
    LET parsed == IF expiresAt.kind = "nil"
                  THEN [ok |-> TRUE, t |-> ZeroTime]
                  ELSE ParseRFC3339(expiresAt)
    IN  IF ~parsed.ok \/ ~dbOk
        THEN [ok |-> FALSE, consumed |-> FALSE, row |-> NoRow]
        ELSE IF RowsByKey(key) # {}
             THEN [ok |-> FALSE, consumed |-> TRUE, row |-> NoRow]
             ELSE [ok |-> TRUE, consumed |-> TRUE,
                   row |-> NewAPIKeyRow(nextKeyID, key, description, parsed.t)]

ApplyCreateAPIKey(out) ==
    /\ api_keys' = IF out.ok THEN api_keys \cup {out.row} ELSE api_keys
    /\ nextKeyID' = IF out.consumed THEN nextKeyID + 1 ELSE nextKeyID

NoKeyDelete == [called |-> FALSE, id |-> 0, err |-> FALSE]

NoKeyOp == [op |-> "none", id |-> 0, reached |-> FALSE, err |-> FALSE,
            given |-> NoRow, row |-> NoRow]

NoGenerate == [called |-> FALSE, ok |-> FALSE, id |-> 0, expiryDays |-> 0]

NoValidate == [called |-> FALSE, at |-> ZeroTime, row |-> NoRow,
               result |-> FALSE, err |-> FALSE]

MaxExpiryDays == 1

\* Service.GenerateAPIKey(description, expiryDays)
GenerateAPIKey(description, expiryDays) ==
    /\ nextKeyID <= MaxKeyID
    /\ \E randOk \in BOOLEAN, key \in KeyMaterial, dbOk \in BOOLEAN :
          IF ~randOk
          THEN /\ lastGenerate' = [called |-> TRUE, ok |-> FALSE, id |-> 0,
                                   expiryDays |-> expiryDays]
               /\ UNCHANGED <<api_keys, nextKeyID>>
          ELSE LET out == CreateAPIKeyOutcome(key, description,
                                              GenerateExpiresAt(expiryDays),
                                              dbOk)
               IN  /\ ApplyCreateAPIKey(out)
                   /\ lastGenerate' =
                         [called |-> TRUE, ok |-> out.ok, id |-> out.row.id,
                          expiryDays |-> expiryDays]
    /\ lastValidate' = NoValidate
    /\ lastKeyDelete' = NoKeyDelete
    /\ lastKeyOp' = NoKeyOp
    /\ UNCHANGED <<now, notKeys>>

\* DB.CreateAPIKey called directly (as the tests do), any expiresAt
CreateAPIKey(key, description, expiresAt) ==
    /\ nextKeyID <= MaxKeyID
    /\ \E dbOk \in BOOLEAN :
          ApplyCreateAPIKey(CreateAPIKeyOutcome(key, description, expiresAt,
                                                dbOk))
    /\ lastValidate' = NoValidate
    /\ lastKeyDelete' = NoKeyDelete
    /\ lastKeyOp' = NoKeyOp
    /\ UNCHANGED <<now, lastGenerate, notKeys>>

\* DB.DeleteAPIKey(id) : no row affected is an error, and changes nothing
DeleteAPIKey(id) ==
    /\ \E dbOk \in BOOLEAN :
          /\ api_keys' = IF dbOk THEN api_keys \ RowsByID(id) ELSE api_keys
          /\ lastKeyDelete' = [called |-> TRUE, id |-> id,
                               err |-> ~dbOk \/ RowsByID(id) = {}]
    /\ lastValidate' = NoValidate
    /\ lastKeyOp' = NoKeyOp
    /\ UNCHANGED <<now, nextKeyID, lastGenerate, notKeys>>

\* table api_keys after UPDATE api_keys SET user_id = $1 WHERE key = $2
AssociatedRows(table, key, userID) ==
    {IF r.key = key THEN [r EXCEPT !.user_id = userID] ELSE r : r \in table}

AssociatedTable(key, userID) == AssociatedRows(api_keys, key, userID)

\* DB.AssociateAPIKeyWithUser(apiKey, userID) : user_id references no table,
\* so any id is taken; a key that matches no row is no error
AssociateAPIKeyWithUser(key, userID) ==
    /\ \E dbOk \in BOOLEAN :
          api_keys' = IF dbOk THEN AssociatedTable(key, userID) ELSE api_keys
    /\ lastValidate' = NoValidate
    /\ lastKeyDelete' = NoKeyDelete
    /\ lastKeyOp' = NoKeyOp
    /\ UNCHANGED <<now, nextKeyID, lastGenerate, notKeys>>

\* DB.ValidateAPIKey(key) : db.Get scans the row, or finds none, or fails
ValidateAPIKeyCall(key) ==
    /\ \E dbOk \in BOOLEAN :
          lastValidate' =
            IF ~dbOk
            THEN [called |-> TRUE, at |-> now, row |-> NoRow,
                  result |-> FALSE, err |-> TRUE]
            ELSE IF RowsByKey(key) = {}
            THEN [called |-> TRUE, at |-> now, row |-> NoRow,
                  result |-> FALSE, err |-> FALSE]
            ELSE LET row == CHOOSE r \in RowsByKey(key) : TRUE
                 IN  [called |-> TRUE, at |-> now, row |-> row,
                      result |-> KeyRowValid(row, now), err |-> FALSE]
    /\ lastKeyDelete' = NoKeyDelete
    /\ lastKeyOp' = NoKeyOp
    /\ UNCHANGED <<now, api_keys, nextKeyID, lastGenerate, notKeys>>

\* DB.ReadAPIKeyByID(id) : no row is an error
ReadAPIKeyByID(id) ==
    /\ \E dbOk \in BOOLEAN :
          lastKeyOp' =
            IF dbOk /\ RowsByID(id) # {}
            THEN [NoKeyOp EXCEPT !.op = "read", !.id = id, !.reached = TRUE,
                                 !.row = CHOOSE r \in RowsByID(id) : TRUE]
            ELSE [NoKeyOp EXCEPT !.op = "read", !.id = id,
                                 !.reached = dbOk, !.err = TRUE]
    /\ lastValidate' = NoValidate
    /\ UNCHANGED <<now, api_keys, nextKeyID, lastGenerate, lastKeyDelete,
                   notKeys>>

\* the columns of table api_keys (apiKeySchema)
APIKeyColumns ==
    {"id", "key", "description", "created_at", "expires_at", "is_active",
     "user_id"}

\* the columns the SET clause of UpdateAPIKey's statement assigns
UpdateSetColumns ==
    {"key", "description", "expires_at", "is_active", "user_id", "updated_at"}

\* DB.UpdateAPIKey(apiKey) : UPDATE ... WHERE id = :id RETURNING created_at.
\* The statement is refused when it names a column the table does not have
\* or when it makes a second row hold the key; no row with the id makes the
\* Scan fail; dbOk = FALSE is any other failure. The value returned is the
\* argument with the created_at the statement returned.
UpdateAPIKeyOutcome(apiKey, dbOk) ==
    IF \/ ~dbOk
       \/ ~(UpdateSetColumns \subseteq APIKeyColumns)
       \/ RowsByID(apiKey.id) = {}
       \/ \E r \in RowsByKey(apiKey.key) : r.id # apiKey.id
    THEN [err |-> TRUE, table |-> api_keys, row |-> NoRow]
    ELSE LET old == CHOOSE r \in RowsByID(apiKey.id) : TRUE
             new == [apiKey EXCEPT !.created_at = old.created_at]
         IN  [err |-> FALSE, table |-> (api_keys \ {old}) \cup {new},
              row |-> new]

UpdateAPIKey(apiKey) ==
    /\ \E dbOk \in BOOLEAN :
          LET out == UpdateAPIKeyOutcome(apiKey, dbOk)
          IN  /\ api_keys' = out.table
              /\ lastKeyOp' = [op |-> "update", id |-> apiKey.id,
                               reached |-> dbOk, err |-> out.err,
                               given |-> apiKey, row |-> out.row]
    /\ lastValidate' = NoValidate
    /\ lastKeyDelete' = NoKeyDelete
    /\ UNCHANGED <<now, nextKeyID, lastGenerate, notKeys>>

\* the clock of the key scenario: tick by tick within a second, by one day
\* during the first day, and by ten years once
KeysMaxTime == StartTime + TenYears + Day + Second

TickKeys ==
    /\ \E d \in {1, Day, TenYears} :
          /\ d = 1 => (now % Second) + 1 < Second
          /\ d = Day => now % TenYears < StartTime + Day
          /\ now + d <= KeysMaxTime
          /\ now' = now + d
    /\ lastValidate' = NoValidate
    /\ lastKeyDelete' = NoKeyDelete
    /\ lastKeyOp' = NoKeyOp
    /\ UNCHANGED <<api_keys, nextKeyID, lastGenerate, notKeys>>

-----------------------------------------------------------------------------
(* Session tokens: Service.GenerateJWT and Service.ValidateJWT *)

SecondsPerMinute == 60

Minute == SecondsPerMinute * Second

AthleteIDs == {1, 2}

\* config.Auth.JWTSecret, and a key that is not it
JWTSecret == "secret"

OtherSecret == "other"

MaxTokenDuration == 2

\* a token string: the claims it carries, the alg of its header and the key
\* its signature was made with; wellFormed = FALSE is a string that does not
\* parse as a token
NoToken ==
    [wellFormed |-> FALSE, user_id |-> 0, exp |-> 0, alg |-> "", key |-> ""]

NoIssue == [called |-> FALSE, token |-> NoToken, at |-> ZeroTime]

NoJWT == [called |-> FALSE, token |-> NoToken, at |-> ZeroTime,
          ok |-> FALSE, user_id |-> 0]

\* StandardClaims.ExpiresAt as GenerateJWT sets it at time t
JWTExpiresAtSeconds(t) == Unix(t + tokenDuration * Second)

JWTExpiresAt(t) == Unix(t + tokenDuration * Minute)

\* jwt.NewWithClaims(jwt.SigningMethodHS256, claims).SignedString(secret)
SignedToken(userID, t) ==
    [wellFormed |-> TRUE, user_id |-> userID, exp |-> JWTExpiresAt(t),
     alg |-> "HS256", key |-> JWTSecret]

\* *jwt.SigningMethodHMAC
HMACMethods == {"HS256", "HS384", "HS512"}

\* StandardClaims.Valid : a claim without exp (0) never expires, another one
\* is valid while the clock's second is not after exp
ClaimsUnexpired(token, t) == token.exp = 0 \/ Unix(t) <= token.exp

\* jwt.ParseWithClaims with the key function of ValidateJWT, then token.Valid
TokenAccepted(token, t) ==
    /\ token.wellFormed
    /\ token.alg \in HMACMethods
    /\ token.key = JWTSecret
    /\ ClaimsUnexpired(token, t)

\* Service.GenerateJWT(userID)
GenerateJWT(userID) ==
    /\ lastIssue' = [called |-> TRUE, token |-> SignedToken(userID, now),
                     at |-> now]
    /\ lastJWT' = NoJWT
    /\ UNCHANGED <<now, tokenDuration, notJWT>>

\* Service.ValidateJWT(tokenString)
ValidateJWT(token) ==
    /\ lastJWT' = [called |-> TRUE, token |-> token, at |-> now,
                   ok |-> TokenAccepted(token, now),
                   user_id |-> IF TokenAccepted(token, now)
                               THEN token.user_id ELSE 0]
    /\ UNCHANGED <<now, tokenDuration, lastIssue, notJWT>>

\* the token strings a caller may present: the issued one, the same claims
\* under another key or another alg, a token of its own making, no token
PresentedTokens ==
    {lastIssue.token,
     [lastIssue.token EXCEPT !.key = OtherSecret],
     [lastIssue.token EXCEPT !.alg = "RS256"],
     [lastIssue.token EXCEPT !.alg = "none", !.key = ""],
     [wellFormed |-> TRUE, user_id |-> 1, exp |-> 0, alg |-> "HS256",
      key |-> OtherSecret],
     NoToken}

\* the clock of the token scenario: tick by tick within a second, second by
\* second at the start of a minute, minute by minute
JWTMaxTime == StartTime + (MaxTokenDuration + 1) * Minute

TickJWT ==
    /\ \E d \in {1, Second, Minute} :
          /\ d = 1 => (now % Second) + 1 < Second
          /\ d = Second => (now % Minute) < 2 * Second
          /\ now + d <= JWTMaxTime
          /\ now' = now + d
    /\ lastJWT' = NoJWT
    /\ UNCHANGED <<tokenDuration, lastIssue, notJWT>>

-----------------------------------------------------------------------------
(* HTTP requests and answers *)

StatusOK == 200

StatusBadRequest == 400

StatusUnauthorized == 401

StatusNotFound == 404

StatusInternalServerError == 500

\* no answer of the middleware: it handed the request to the next handler
StatusNone == 0

\* no Authorization header
NoAuthHeader == [present |-> FALSE, parts |-> 0, scheme |-> "",
                 token |-> NoToken]

\* a query parameter: missing (the empty string), a decimal integer that
\* fits an int, one that does not, or other text
MissingParam == [kind |-> "missing", n |-> 0]

NoParams == [limit |-> MissingParam, offset |-> MissingParam]

NoRequest == [called |-> FALSE, route |-> "", header |-> "", query |-> "",
              body |-> "",
              apiKey |-> "", authHeader |-> NoAuthHeader, at |-> ZeroTime,
              status |-> StatusNone, handlerRan |-> FALSE,
              hasUserID |-> FALSE, userID |-> 0,
              params |-> NoParams, limit |-> 0, offset |-> 0,
              key |-> ""]

MaxQueryInt == 3

\* the values a client may send as limit or offset
QueryParams ==
    {MissingParam, [kind |-> "text", n |-> 0], [kind |-> "overflow", n |-> 0]}
    \cup {[kind |-> "int", n |-> n] : n \in -1 .. MaxQueryInt}

\* strconv.Atoi
Atoi(str) ==
    IF str.kind = "int" THEN [err |-> FALSE, n |-> str.n]
                        ELSE [err |-> TRUE, n |-> 0]

DefaultLimit == 20

DefaultOffset == 0

\* listActivitiesHandler, lines 211-217
EffectiveLimitNotNegative(limitStr) ==
    IF limitStr.kind # "missing" /\ ~Atoi(limitStr).err
       /\ Atoi(limitStr).n >= 0
    THEN Atoi(limitStr).n ELSE DefaultLimit

EffectiveLimit(limitStr) ==
    IF limitStr.kind # "missing" /\ ~Atoi(limitStr).err
       /\ Atoi(limitStr).n > 0
    THEN Atoi(limitStr).n ELSE DefaultLimit

\* listActivitiesHandler, lines 219-225
EffectiveOffset(offsetStr) ==
    IF offsetStr.kind # "missing" /\ ~Atoi(offsetStr).err
       /\ Atoi(offsetStr).n >= 0
    THEN Atoi(offsetStr).n ELSE DefaultOffset

\* Server.listActivitiesHandler: GET /api/v1/activities; the store is asked
\* with the effective limit and offset, and its error is answered 500
ListActivitiesRequest(limitStr, offsetStr) ==
    /\ \E dbOk \in BOOLEAN :
          lastRequest' =
             [NoRequest EXCEPT
                 !.called = TRUE, !.route = "list", !.at = now,
                 !.handlerRan = TRUE,
                 !.params = [limit |-> limitStr, offset |-> offsetStr],
                 !.limit = EffectiveLimit(limitStr),
                 !.offset = EffectiveOffset(offsetStr),
                 !.status = IF dbOk THEN StatusOK
                                    ELSE StatusInternalServerError,
                 !.body = IF dbOk THEN "activities"
                                  ELSE "Error getting activities"]
    /\ UNCHANGED <<now, notReq>>

-----------------------------------------------------------------------------
(* Activities: table activities and its operations *)

\* the columns of activities besides id, created_at and updated_at
DataColumns ==
    {"name", "description", "type", "distance", "moving_time",
     "elapsed_time", "total_elevation_gain", "start_date",
     "start_date_local", "timezone", "start_latlng", "end_latlng",
     "achievement_count", "kudos_count", "comment_count", "athlete_count",
     "photo_count", "map_id", "map_polyline", "trainer", "commute",
     "manual", "private", "visibility", "flagged", "workout_type",
     "average_speed", "max_speed", "has_heartrate", "average_heartrate",
     "max_heartrate", "elev_high", "elev_low", "upload_id",
     "upload_id_str", "external_id", "athlete_id"}

\* the columns the ON CONFLICT (id) DO UPDATE SET clause takes from EXCLUDED
UpsertSetColumnsNoDistance == DataColumns \ {"distance"}

UpsertSetColumns ==
    {"name", "description", "type", "distance", "moving_time",
     "elapsed_time", "total_elevation_gain", "start_date",
     "start_date_local", "timezone", "start_latlng", "end_latlng",
     "achievement_count", "kudos_count", "comment_count", "athlete_count",
     "photo_count", "map_id", "map_polyline", "trainer", "commute",
     "manual", "private", "visibility", "flagged", "workout_type",
     "average_speed", "max_speed", "has_heartrate", "average_heartrate",
     "max_heartrate", "elev_high", "elev_low", "upload_id",
     "upload_id_str", "external_id", "athlete_id"}

MaxActivityID == 3

MaxVersion == 2

\* the ids of the provider's activities, and those the store scenario uses
ActivityIDs == 1 .. MaxActivityID

StoreIDs == {1, 2}

\* an Activity value: every column holds v, but distance, which holds dist
ActivityData(dist, v) ==
    [c \in DataColumns |-> IF c = "distance" THEN dist ELSE v]

NoData == [c \in DataColumns |-> 0]

NoActivity ==
    [id |-> 0, data |-> NoData, created_at |-> ZeroTime,
     updated_at |-> ZeroTime]

\* the rows the primary key id makes the INSERT conflict with
ConflictRowsNone(id) == {}

ConflictRows(id) == {r \in activities : r.id = id}

\* the row the statement of DB.CreateActivity leaves for the given Activity:
\* a new row with both timestamps defaulting to NOW(), or on a conflict the
\* present row with the SET columns taken from the new values and
\* updated_at = NOW()
UpsertedRow(id, data) ==
    IF ConflictRows(id) = {}
    THEN [id |-> id, data |-> data, created_at |-> now, updated_at |-> now]
    ELSE LET old == CHOOSE r \in ConflictRows(id) : TRUE
         IN  [id |-> id,
              data |-> [c \in DataColumns |->
                          IF c \in UpsertSetColumns THEN data[c]
                                                    ELSE old.data[c]],
              created_at |-> old.created_at,
              updated_at |-> now]

\* table activities after the statement of DB.CreateActivity
UpsertedTable(id, data) ==
    (activities \ ConflictRows(id)) \cup {UpsertedRow(id, data)}

\* SELECT * FROM activities WHERE id = $1
ActivityRows(id) == {r \in activities : r.id = id}

NoApplied ==
    [id \in ActivityIDs \cup StoreIDs |->
        [data |-> NoData, inserted |-> ZeroTime]]

\* the history of an applied upsert
AppliedAfter(id, data) ==
    [applied EXCEPT ![id] =
        [data |-> data,
         inserted |-> IF ActivityRows(id) = {} THEN now
                      ELSE applied[id].inserted]]

NoUpsert ==
    [called |-> FALSE, ok |-> FALSE, id |-> 0, data |-> NoData,
     before |-> NoActivity, returned |-> NoActivity, at |-> ZeroTime]

NoDelete == [called |-> FALSE, id |-> 0, err |-> FALSE, removed |-> 0]

NoGet == [called |-> FALSE, id |-> 0, found |-> FALSE, row |-> NoActivity]

\* DB.CreateActivity(activity) : the upsert, RETURNING * the stored row
CreateActivity(id, data) ==
    /\ \E dbOk \in BOOLEAN :
          IF dbOk
          THEN /\ activities' = UpsertedTable(id, data)
               /\ applied' = AppliedAfter(id, data)
               /\ lastUpsert' =
                    [called |-> TRUE, ok |-> TRUE, id |-> id, data |-> data,
                     before |-> IF ActivityRows(id) = {} THEN NoActivity
                                ELSE CHOOSE r \in ActivityRows(id) : TRUE,
                     returned |-> UpsertedRow(id, data), at |-> now]
          ELSE /\ lastUpsert' = [NoUpsert EXCEPT !.called = TRUE, !.id = id,
                                                 !.data = data, !.at = now]
               /\ UNCHANGED <<activities, applied>>
    /\ lastGet' = NoGet
    /\ lastDelete' = NoDelete
    /\ UNCHANGED <<now, notStore>>

\* DB.GetActivityByID(id) : no row is an error
GetActivityByID(id) ==
    /\ \E dbOk \in BOOLEAN :
          lastGet' =
            IF dbOk /\ ActivityRows(id) # {}
            THEN [called |-> TRUE, id |-> id, found |-> TRUE,
                  row |-> CHOOSE r \in ActivityRows(id) : TRUE]
            ELSE [called |-> TRUE, id |-> id, found |-> FALSE,
                  row |-> NoActivity]
    /\ UNCHANGED <<now, activities, applied, lastUpsert, lastDelete, notStore>>

\* what DB.GetActivityByID(id) returns: the row, or an error when there is
\* none or the query fails; it never returns no row without an error
GetActivityByIDOutcome(id, dbOk) ==
    IF dbOk /\ ActivityRows(id) # {}
    THEN [err |-> FALSE, isNil |-> FALSE,
          row |-> CHOOSE r \in ActivityRows(id) : TRUE]
    ELSE [err |-> TRUE, isNil |-> FALSE, row |-> NoActivity]

\* the answer of Server.getActivityHandler to what GetActivityByID returned
GetActivityAnswer(got) ==
    IF got.err
    THEN [status |-> StatusInternalServerError,
          body |-> "Error getting activity"]
    ELSE IF got.isNil
    THEN [status |-> StatusNotFound, body |-> "Activity not found"]
    ELSE [status |-> StatusOK, body |-> "activity"]

\* Server.getActivityHandler: GET /api/v1/activities/{id}; an id that does
\* not parse is answered 400 before the store is asked
GetActivityRequest(idOk, id) ==
    /\ \E dbOk \in BOOLEAN :
          IF ~idOk
          THEN /\ lastGet' = NoGet
               /\ lastRequest' =
                     [NoRequest EXCEPT !.called = TRUE, !.route = "activity",
                                       !.at = now, !.handlerRan = TRUE,
                                       !.status = StatusBadRequest,
                                       !.body = "Invalid activity ID"]
          ELSE LET got == GetActivityByIDOutcome(id, dbOk)
                   answer == GetActivityAnswer(got)
               IN  /\ lastGet' = [called |-> TRUE, id |-> id,
                                  found |-> ~got.err, row |-> got.row]
                   /\ lastRequest' =
                         [NoRequest EXCEPT !.called = TRUE,
                                           !.route = "activity",
                                           !.at = now, !.handlerRan = TRUE,
                                           !.status = answer.status,
                                           !.body = answer.body]
    /\ UNCHANGED <<now, activities, applied, lastUpsert, lastDelete, keyVars,
                   jwtVars, syncVars, authVars, callVars>>

\* table activities after DELETE FROM activities WHERE id = $1
DeletedActivitiesKept(id) == activities

DeletedActivities(id) == activities \ ActivityRows(id)

\* DB.DeleteActivity(id) : no row affected is no error
DeleteActivity(id) ==
    /\ \E dbOk \in BOOLEAN :
          /\ IF dbOk
             THEN /\ activities' = DeletedActivities(id)
                  /\ applied' = [applied EXCEPT ![id] = NoApplied[id]]
             ELSE UNCHANGED <<activities, applied>>
          /\ lastDelete' =
                [called |-> TRUE, id |-> id, err |-> ~dbOk,
                 removed |-> IF dbOk THEN Cardinality(ActivityRows(id))
                                     ELSE 0]
    /\ lastUpsert' = NoUpsert
    /\ lastGet' = NoGet
    /\ UNCHANGED <<now, notStore>>

\* the clock of the store scenario, second by second
MaxStoreSeconds == 1

StoreMaxTime == StartTime + MaxStoreSeconds * Second

TickStore ==
    /\ now + Second <= StoreMaxTime
    /\ now' = now + Second
    /\ lastUpsert' = NoUpsert
    /\ lastGet' = NoGet
    /\ lastDelete' = NoDelete
    /\ UNCHANGED <<activities, applied, notStore>>

-----------------------------------------------------------------------------
(* The sync cycle: Client.FetchActivities, its callers and the provider *)

HoursPerDay == 24

SecondsPerHour == 3600

Hour == SecondsPerHour * Second

\* the days an administrator asks for: none (taken as one) and two
AdminDays == {0, 2}

\* the activity the athlete edits
EditedIDs == {1}

\* the limit both callers pass to FetchActivities (100 in the source)
PageSize == 2

\* the goroutines that run FetchActivities: the loop of StartSyncJob and
\* the goroutine of one admin request
SyncProcs == {"sched", "admin"}

NoAccessToken == ""

\* the provider has no activity with this id
NoRemote == [present |-> FALSE, start |-> 0, dist |-> 0]

\* the second the scheduler's cutoff falls in when the process starts
CutoffSecond == Unix(StartTime - HoursPerDay * Hour)

\* json.Marshal then json.Unmarshal of an ActivitySummary, as the columns
\* of the table: the start date in start_date and start_date_local, dist
\* standing for every other value
activityToMap(act) ==
    [id |-> act.id,
     data |-> [c \in DataColumns |->
                 IF c \in {"start_date", "start_date_local"}
                 THEN FromUnix(act.start) ELSE act.dist]]

\* the provider's activities as the client sees them
RemoteActivities ==
    {[id |-> id, start |-> remote[id].start, dist |-> remote[id].dist] :
        id \in {i \in ActivityIDs : remote[i].present}}

\* the provider's filter: the activities that have taken place after the
\* given epoch second
TakenAfter(after) == {a \in RemoteActivities : a.start > after}

\* oldest first, as the provider lists activities under an after filter
RECURSIVE OldestFirst(_)
OldestFirst(S) ==
    IF S = {} THEN <<>>
    ELSE LET a == CHOOSE x \in S :
                    \A y \in S : x.start < y.start
                                 \/ (x.start = y.start /\ x.id <= y.id)
         IN  <<a>> \o OldestFirst(S \ {a})

\* ListActivities().After(after).Page(page).PerPage(perPage).Do()
ListActivitiesPage(after, page, perPage) ==
    LET all == OldestFirst(TakenAfter(after))
        from == (page - 1) * perPage + 1
        to == IF page * perPage < Len(all) THEN page * perPage ELSE Len(all)
    IN  SubSeq(all, from, to)

\* the provider accepts the token
TokenUsable(token) == token # NoAccessToken /\ ~tokenExpired

\* the argument of After(...) in FetchActivities
AfterArgumentZero(after) == 0

AfterArgument(after) == Unix(after)

\* the argument of Page(...) in FetchActivities
FetchPage == 1

NoCall == [made |-> FALSE, token |-> NoAccessToken, after |-> 0,
           page |-> 0, per_page |-> 0]

IdleSync ==
    [pc |-> "idle", cutoff |-> ZeroTime, limit |-> 0, fetched |-> <<>>,
     idx |-> 0, result |-> "none", call |-> NoCall, loggedFetched |-> 0,
     convertErrors |-> 0, saveErrors |-> 0, saved |-> {},
     asked |-> 0, days |-> 0, requested |-> ZeroTime,
     started |-> ZeroTime]

\* FetchActivities(after, limit) is entered by goroutine p
EnterFetchActivities(p, after, limit) ==
    sync' = [sync EXCEPT ![p] = [IdleSync EXCEPT !.pc = "fetch",
                                                 !.cutoff = after,
                                                 !.limit = limit,
                                                 !.asked = sync[p].asked,
                                                 !.days = sync[p].days,
                                                 !.requested =
                                                     sync[p].requested,
                                                 !.started = now]]

\* time.NewTicker: the channel of the ticker holds one tick
TickerCapacity == 1

\* the ticker fires: the tick is put into the channel, or dropped when the
\* channel is full
TickerAfterFireUnbounded(held) == held + 1

TickerAfterFire(held) == IF held < TickerCapacity THEN held + 1 ELSE held

TimerFires ==
    /\ ticker' = TickerAfterFire(ticker)
    /\ UNCHANGED <<now, remote, clientToken, tokenExpired, sync, storeVars,
                   notSync>>

\* StartSyncJob, lines 264-271: the loop waits for a tick before its first
\* sync and after every sync, whether that returned nil or an error (which
\* is only logged)
SchedulerAwaitsTickUnlessFailed(s) ==
    s.pc = "idle" \/ (s.pc = "done" /\ s.result = "nil")

SchedulerAwaitsTick(s) == s.pc \in {"idle", "done"}

\* StartSyncJob : a tick of the ticker, taken by the loop when it is not in
\* a sync; the last 24 hours
SchedulerTickPerTick ==
    /\ ticker > 0
    /\ ticker' = ticker - 1
    /\ EnterFetchActivities("sched", now - HoursPerDay * Hour, PageSize)
    /\ UNCHANGED <<now, remote, clientToken, tokenExpired, storeVars, notSync>>

SchedulerTick ==
    /\ SchedulerAwaitsTick(sync["sched"])
    /\ ticker > 0
    /\ ticker' = ticker - 1
    /\ EnterFetchActivities("sched", now - HoursPerDay * Hour, PageSize)
    /\ UNCHANGED <<now, remote, clientToken, tokenExpired, storeVars, notSync>>

\* the window of an admin request: days <= 0 is taken as 1
SyncDaysAsGiven(days) == days

SyncDays(days) == IF days <= 0 THEN 1 ELSE days

\* the body of the handler's answer
SyncReplyBodyAlways(decodeOk) == "sync started"

SyncReplyBody(decodeOk) ==
    IF decodeOk THEN "sync started" ELSE "Invalid request body"

\* Server.syncActivitiesHandler : 400 for a body that does not decode;
\* otherwise it starts the goroutine and answers (one such goroutine at a
\* time in this model)
AdminSync(decodeOk, days) ==
    /\ sync["admin"].pc \in {"idle", "done"}
    /\ lastRequest' =
          [NoRequest EXCEPT !.called = TRUE, !.route = "sync", !.at = now,
                            !.status = IF decodeOk THEN StatusOK
                                                   ELSE StatusBadRequest,
                            !.handlerRan = TRUE,
                            !.body = SyncReplyBody(decodeOk)]
    /\ sync' = IF decodeOk
               THEN [sync EXCEPT !["admin"] =
                        [IdleSync EXCEPT !.pc = "spawned",
                                         !.asked = days,
                                         !.days = SyncDays(days),
                                         !.requested = now]]
               ELSE sync
    /\ UNCHANGED <<now, remote, clientToken, tokenExpired, ticker, storeVars,
                   keyVars, jwtVars, authVars, callVars>>

\* the goroutine of syncActivitiesHandler starts to run: time.Now() is read
\* here, then FetchActivities is entered
AdminSyncStart ==
    /\ sync["admin"].pc = "spawned"
    /\ EnterFetchActivities("admin",
                            now - sync["admin"].days * HoursPerDay * Hour,
                            PageSize)
    /\ UNCHANGED <<now, remote, clientToken, tokenExpired, ticker, storeVars,
                   notSync>>

\* FetchActivities takes no lock and looks at no other goroutine: a cycle
\* goes on whatever the other cycles do
MayProceedAlone(p) ==
    \A q \in SyncProcs \ {p} : sync[q].pc \notin {"fetch", "save"}

MayProceed(p) == TRUE

\* FetchActivities, lines 50-64: the one call of the provider's activity
\* endpoint, with the client's token whatever it is; an error ends the cycle
FetchStep(p) ==
    /\ sync[p].pc = "fetch"
    /\ MayProceed(p)
    /\ LET call == [made |-> TRUE, token |-> clientToken,
                    after |-> AfterArgument(sync[p].cutoff),
                    page |-> FetchPage, per_page |-> sync[p].limit]
       IN  \E netOk \in BOOLEAN :
             IF netOk /\ TokenUsable(clientToken)
             THEN LET list == ListActivitiesPage(call.after, call.page,
                                                 call.per_page)
                  IN  sync' = [sync EXCEPT ![p].pc = "save",
                                           ![p].call = call,
                                           ![p].fetched = list,
                                           ![p].loggedFetched = Len(list),
                                           ![p].idx = 1]
             ELSE sync' = [sync EXCEPT ![p].pc = "done",
                                       ![p].call = call,
                                       ![p].result = "error"]
    /\ UNCHANGED <<now, remote, clientToken, tokenExpired, ticker, storeVars,
                   notSync>>

\* DB.SaveActivity(activityMap) : the upsert keyed by the provider's id
SaveActivityTableMirror(activityMap) ==
    {UpsertedRow(activityMap.id, activityMap.data)}

SaveActivityTable(activityMap) ==
    UpsertedTable(activityMap.id, activityMap.data)

\* the position of the loop after a record that failed: continue
IndexAfterFailureAbort(idx, len) == len + 1

IndexAfterFailure(idx, len) == idx + 1

\* FetchActivities, lines 67-80: one turn of the loop over the activities;
\* a record that fails to convert or to save is logged and skipped
SaveStep(p) ==
    /\ sync[p].pc = "save"
    /\ sync[p].idx <= Len(sync[p].fetched)
    /\ MayProceed(p)
    /\ LET act == sync[p].fetched[sync[p].idx]
           activityMap == activityToMap(act)
       IN  \E convOk \in BOOLEAN, dbOk \in BOOLEAN :
             IF ~convOk
             THEN /\ sync' = [sync EXCEPT
                                ![p].idx = IndexAfterFailure(
                                             @, Len(sync[p].fetched)),
                                ![p].convertErrors = @ + 1]
                  /\ UNCHANGED <<activities, applied>>
             ELSE IF ~dbOk
             THEN /\ sync' = [sync EXCEPT
                                ![p].idx = IndexAfterFailure(
                                             @, Len(sync[p].fetched)),
                                ![p].saveErrors = @ + 1]
                  /\ UNCHANGED <<activities, applied>>
             ELSE /\ activities' = SaveActivityTable(activityMap)
                  /\ applied' = AppliedAfter(activityMap.id, activityMap.data)
                  /\ sync' = [sync EXCEPT
                                ![p].idx = @ + 1,
                                ![p].saved = @ \cup {act.id}]
    /\ lastUpsert' = NoUpsert
    /\ lastGet' = NoGet
    /\ lastDelete' = NoDelete
    /\ UNCHANGED <<now, remote, clientToken, tokenExpired, ticker, notSync>>

\* FetchActivities, line 82: the loop is over, return nil
ReturnStep(p) ==
    /\ sync[p].pc = "save"
    /\ sync[p].idx > Len(sync[p].fetched)
    /\ sync' = [sync EXCEPT ![p].pc = "done", ![p].result = "nil"]
    /\ UNCHANGED <<now, remote, clientToken, tokenExpired, ticker, storeVars,
                   notSync>>

\* the athlete edits an activity at the provider
RemoteEdit(id) ==
    /\ remote[id].present
    /\ remote[id].dist = 1
    /\ remote' = [remote EXCEPT ![id].dist = @ + 1]
    /\ UNCHANGED <<now, clientToken, tokenExpired, sync, ticker, storeVars,
                   notSync>>

\* the clock of the dispatch scenario, tick by tick
MaxSyncSeconds == 1

SyncMaxTime == StartTime + MaxSyncSeconds * Second

TickSync ==
    /\ now + 1 <= SyncMaxTime
    /\ now' = now + 1
    /\ UNCHANGED <<syncVars, storeVars, notSync>>

-----------------------------------------------------------------------------
(* The OAuth callback and table users *)

AuthCodes == {"", "bad", "code1", "code2"}

\* the access tokens the provider hands out
AccessTokens == {"tokenA", "tokenB"}

\* the athlete saveAthlete stores no username for
NoUsername == ""

NoAuthorization == [ok |-> FALSE, athlete |-> 0, access_token |-> NoAccessToken]

\* authenticator.Authorize(code): what the provider may answer to a code; a
\* code it issued belongs to one athlete and yields a token or, when the
\* exchange fails (network, code used before), an error; RefreshToken hands
\* it a refresh token in the place of the code
AuthorizeOutcomes(code) ==
    {NoAuthorization} \cup
    (IF code \in {"code1", "refresh1"}
     THEN {[ok |-> TRUE, athlete |-> 1, access_token |-> t] :
             t \in AccessTokens}
     ELSE IF code = "code2"
     THEN {[ok |-> TRUE, athlete |-> 2, access_token |-> t] :
             t \in AccessTokens}
     ELSE {})

UserRows(id) == {r \in users : r.id = id}

\* userSchema: username TEXT UNIQUE; the rows of other ids that hold the
\* username
UsernameTaken(id, username) ==
    \E r \in users : r.id # id /\ r.username = username

\* the row saveAthlete's statement leaves for the athlete: inserted with an
\* empty username, or on a conflict on id the token columns and updated_at
\* overwritten
SavedUserRowKeepToken(id, accessToken, refreshToken) ==
    IF UserRows(id) = {}
    THEN [id |-> id, username |-> NoUsername, access_token |-> accessToken,
          refresh_token |-> refreshToken, created_at |-> now,
          updated_at |-> now]
    ELSE [(CHOOSE r \in UserRows(id) : TRUE) EXCEPT !.updated_at = now]

SavedUserRow(id, accessToken, refreshToken) ==
    IF UserRows(id) = {}
    THEN [id |-> id, username |-> NoUsername, access_token |-> accessToken,
          refresh_token |-> refreshToken, created_at |-> now,
          updated_at |-> now]
    ELSE [(CHOOSE r \in UserRows(id) : TRUE) EXCEPT
             !.access_token = accessToken,
             !.refresh_token = refreshToken,
             !.updated_at = now]

\* Client.saveAthlete: the statement fails when the database refuses it
\* (dbOk) or when another athlete's row already holds the empty username
SaveAthleteOutcome(id, accessToken, refreshToken, dbOk) ==
    IF dbOk /\ ~UsernameTaken(id, NoUsername)
    THEN [err |-> FALSE,
          table |-> (users \ UserRows(id)) \cup
                    {SavedUserRow(id, accessToken, refreshToken)}]
    ELSE [err |-> TRUE, table |-> users]

\* the refresh tokens a caller of RefreshToken may hold
RefreshTokens == {"", "refresh1"}

NoRefresh == [called |-> FALSE, refresh_token |-> "", asked |-> FALSE,
              ok |-> FALSE, athlete |-> 0, access_token |-> NoAccessToken,
              clientBefore |-> NoAccessToken, configBefore |-> NoAccessToken,
              usersBefore |-> {}]

NoCallback == [called |-> FALSE, code |-> "", status |-> 0, athlete |-> 0,
               access_token |-> NoAccessToken, token |-> NoToken,
               writes |-> 0, saveErr |-> FALSE]

\* Server.stravaCallbackHandler with Client.HandleAuthCallback and
\* Service.GenerateJWT: 400 without a code, 500 when the exchange fails;
\* otherwise the client and the configuration take the new access token,
\* saveAthlete runs and its error is only logged, and the session token for
\* the athlete is answered
StravaCallbackAssignFirst(code, resp, dbOk) ==
    /\ resp \in AuthorizeOutcomes(code)
    /\ lastJWT' = NoJWT
    /\ lastRefresh' = NoRefresh
    /\ UNCHANGED <<now, tokenDuration, notAuth>>
    /\ IF code = ""
       THEN /\ lastCallback' = [NoCallback EXCEPT !.called = TRUE,
                                                   !.status = 400]
            /\ UNCHANGED <<users, configToken, clientToken, tokenExpired,
                           lastIssue>>
       ELSE IF ~resp.ok
       THEN /\ lastCallback' = [NoCallback EXCEPT !.called = TRUE,
                                                   !.code = code,
                                                   !.status = 500]
            /\ clientToken' = resp.access_token
            /\ configToken' = resp.access_token
            /\ UNCHANGED <<users, tokenExpired, lastIssue>>
       ELSE LET saved == SaveAthleteOutcome(resp.athlete, resp.access_token,
                                            "", dbOk)
                token == SignedToken(resp.athlete, now)
            IN  /\ clientToken' = resp.access_token
                /\ tokenExpired' = FALSE
                /\ configToken' = resp.access_token
                /\ users' = saved.table
                /\ lastIssue' = [called |-> TRUE, token |-> token, at |-> now]
                /\ lastCallback' =
                       [called |-> TRUE, code |-> code, status |-> 200,
                        athlete |-> resp.athlete,
                        access_token |-> resp.access_token,
                        token |-> token,
                        writes |-> IF saved.err THEN 0 ELSE 1,
                        saveErr |-> saved.err]

StravaCallback(code, resp, dbOk) ==
    /\ resp \in AuthorizeOutcomes(code)
    /\ lastJWT' = NoJWT
    /\ lastRefresh' = NoRefresh
    /\ UNCHANGED <<now, tokenDuration, notAuth>>
    /\ IF code = ""
       THEN /\ lastCallback' = [NoCallback EXCEPT !.called = TRUE,
                                                   !.status = 400]
            /\ UNCHANGED <<users, configToken, clientToken, tokenExpired,
                           lastIssue>>
       ELSE IF ~resp.ok
       THEN /\ lastCallback' = [NoCallback EXCEPT !.called = TRUE,
                                                   !.code = code,
                                                   !.status = 500]
            /\ UNCHANGED <<users, configToken, clientToken, tokenExpired,
                           lastIssue>>
       ELSE LET saved == SaveAthleteOutcome(resp.athlete, resp.access_token,
                                            "", dbOk)
                token == SignedToken(resp.athlete, now)
            IN  /\ clientToken' = resp.access_token
                /\ tokenExpired' = FALSE
                /\ configToken' = resp.access_token
                /\ users' = saved.table
                /\ lastIssue' = [called |-> TRUE, token |-> token, at |-> now]
                /\ lastCallback' =
                       [called |-> TRUE, code |-> code, status |-> 200,
                        athlete |-> resp.athlete,
                        access_token |-> resp.access_token,
                        token |-> token,
                        writes |-> IF saved.err THEN 0 ELSE 1,
                        saveErr |-> saved.err]

\* Client.RefreshToken(refreshToken): an error without a refresh token and
\* when the provider refuses; otherwise the client and the configuration
\* take the new access token (table users is not written)
RefreshToken(refreshToken, resp) ==
    /\ lastCallback' = NoCallback
    /\ UNCHANGED <<now, users, jwtVars, notAuth>>
    /\ LET seen == [NoRefresh EXCEPT !.called = TRUE,
                                     !.refresh_token = refreshToken,
                                     !.clientBefore = clientToken,
                                     !.configBefore = configToken,
                                     !.usersBefore = users]
       IN  IF refreshToken = ""
           THEN /\ lastRefresh' = seen
                /\ UNCHANGED <<configToken, clientToken, tokenExpired>>
           ELSE /\ resp \in AuthorizeOutcomes(refreshToken)
                /\ IF ~resp.ok
                   THEN /\ lastRefresh' = [seen EXCEPT !.asked = TRUE]
                        /\ UNCHANGED <<configToken, clientToken,
                                       tokenExpired>>
                   ELSE /\ clientToken' = resp.access_token
                        /\ tokenExpired' = FALSE
                        /\ configToken' = resp.access_token
                        /\ lastRefresh' =
                               [seen EXCEPT !.asked = TRUE, !.ok = TRUE,
                                            !.athlete = resp.athlete,
                                            !.access_token =
                                                resp.access_token]

\* The same two functions statement by statement, as the goroutines of
\* concurrent requests run them: nothing orders the assignment of c.client
\* and the assignment of c.config.Strava.AccessToken of one goroutine with
\* those of another.
CallbackProcs == {"cb1", "cb2"}

RefreshProcs == {"refresh"}

CallProcs == CallbackProcs \cup RefreshProcs

IdleCall == [pc |-> "idle", ok |-> FALSE, athlete |-> 0,
             access_token |-> NoAccessToken]

\* HandleAuthCallback line 134, RefreshToken lines 104-111: the exchange at
\* the provider; an error returns at once, and so does an empty code (in
\* the handler) or an empty refresh token
CallAuthorize(p, code, resp) ==
    /\ calls[p].pc = "idle"
    /\ resp \in AuthorizeOutcomes(code)
    /\ calls' = [calls EXCEPT ![p] =
                   IF resp.ok
                   THEN [pc |-> "client", ok |-> TRUE,
                         athlete |-> resp.athlete,
                         access_token |-> resp.access_token]
                   ELSE [IdleCall EXCEPT !.pc = "done"]]
    /\ UNCHANGED <<now, users, configToken, clientToken, tokenExpired,
                   lastCallback, lastRefresh, jwtVars, keyVars, storeVars,
                   remote, sync, ticker, reqVars>>

\* HandleAuthCallback line 140, RefreshToken line 114:
\* c.client = strava.NewClient(resp.AccessToken)
CallSetClient(p) ==
    /\ calls[p].pc = "client"
    /\ clientToken' = calls[p].access_token
    /\ tokenExpired' = FALSE
    /\ calls' = [calls EXCEPT ![p].pc = "config"]
    /\ UNCHANGED <<now, users, configToken, lastCallback, lastRefresh,
                   jwtVars, keyVars, storeVars, remote, sync, ticker,
                   reqVars>>

\* the position after the assignment of the configuration: saveAthlete in
\* HandleAuthCallback, the return in RefreshToken
AfterSetConfig(p) == IF p \in CallbackProcs THEN "save" ELSE "done"

\* HandleAuthCallback line 143, RefreshToken line 117:
\* c.config.Strava.AccessToken = resp.AccessToken
CallSetConfig(p) ==
    /\ calls[p].pc = "config"
    /\ configToken' = calls[p].access_token
    /\ calls' = [calls EXCEPT ![p].pc = AfterSetConfig(p)]
    /\ UNCHANGED <<now, users, clientToken, tokenExpired, lastCallback,
                   lastRefresh, jwtVars, keyVars, storeVars, remote, sync,
                   ticker, reqVars>>

\* HandleAuthCallback lines 146-149: saveAthlete, its error only logged
CallSaveAthlete(p) ==
    /\ calls[p].pc = "save"
    /\ \E dbOk \in BOOLEAN :
          users' = SaveAthleteOutcome(calls[p].athlete,
                                      calls[p].access_token, "", dbOk).table
    /\ calls' = [calls EXCEPT ![p].pc = "done"]
    /\ UNCHANGED <<now, configToken, clientToken, tokenExpired, lastCallback,
                   lastRefresh, jwtVars, keyVars, storeVars, remote, sync,
                   ticker, reqVars>>

\* DB.DeleteUser(id) : DELETE FROM users WHERE id = $1; no table references
\* users
DeleteUserCascade(id) ==
    /\ UserRows(id) # {}
    /\ users' = users \ UserRows(id)
    /\ api_keys' = {r \in api_keys : r.user_id # id}
    /\ lastCallback' = NoCallback
    /\ lastRefresh' = NoRefresh
    /\ UNCHANGED <<now, configToken, clientToken, tokenExpired, jwtVars,
                   nextKeyID, lastValidate, lastGenerate, lastKeyDelete,
                   lastKeyOp, storeVars, remote,
                   sync, ticker, reqVars, callVars>>

DeleteUser(id) ==
    /\ UserRows(id) # {}
    /\ users' = users \ UserRows(id)
    /\ lastCallback' = NoCallback
    /\ lastRefresh' = NoRefresh
    /\ UNCHANGED <<now, configToken, clientToken, tokenExpired, jwtVars,
                   notAuth>>

\* the clock of the callback scenario
MaxAuthSeconds == 2

AuthMaxTime == StartTime + MaxAuthSeconds * Second

TickAuth ==
    /\ now + Second <= AuthMaxTime
    /\ now' = now + Second
    /\ lastCallback' = NoCallback
    /\ lastRefresh' = NoRefresh
    /\ UNCHANGED <<users, configToken, clientToken, tokenExpired, jwtVars,
                   notAuth>>

-----------------------------------------------------------------------------
(* The middlewares: Service.AuthMiddleware and Service.JWTMiddleware *)

\* AuthMiddleware, lines 82-85: the header X-API-Key, else the query
\* parameter api_key
RequestAPIKey(header, query) == IF header = "" THEN query ELSE header

\* AuthMiddleware, lines 87-101: what the middleware answers, or StatusNone
KeyGateStatusPassInvalid(apiKey, valid, err) ==
    IF apiKey = "" THEN StatusUnauthorized
    ELSE IF err THEN StatusInternalServerError
    ELSE StatusNone

KeyGateStatus(apiKey, valid, err) ==
    IF apiKey = "" THEN StatusUnauthorized
    ELSE IF err THEN StatusInternalServerError
    ELSE IF ~valid THEN StatusUnauthorized
    ELSE StatusNone

\* Service.AuthMiddleware in front of a handler of /api/v1
APIKeyRequest(header, query) ==
    /\ \E dbOk \in BOOLEAN :
          LET apiKey == RequestAPIKey(header, query)
              status == KeyGateStatus(apiKey, dbOk /\ ValidateAPIKey(apiKey),
                                      ~dbOk)
          IN  lastRequest' =
                 [NoRequest EXCEPT !.called = TRUE, !.route = "data",
                                   !.header = header, !.query = query,
                                   !.apiKey = apiKey, !.at = now,
                                   !.status = status,
                                   !.handlerRan = (status = StatusNone)]
    /\ UNCHANGED <<now, notReq>>

\* JWTMiddleware, lines 162-165: strings.Split(authHeader, " ") has two
\* parts and the first is Bearer
BearerFormAnyScheme(authHeader) == authHeader.parts = 2

BearerForm(authHeader) ==
    authHeader.parts = 2 /\ authHeader.scheme = "Bearer"

\* Service.JWTMiddleware in front of a handler of /admin
AdminRequest(authHeader) ==
    /\ LET passed == /\ authHeader.present
                     /\ BearerForm(authHeader)
                     /\ TokenAccepted(authHeader.token, now)
       IN  lastRequest' =
              [NoRequest EXCEPT
                  !.called = TRUE, !.route = "admin",
                  !.authHeader = authHeader, !.at = now,
                  !.status = IF passed THEN StatusNone
                                       ELSE StatusUnauthorized,
                  !.handlerRan = passed,
                  !.hasUserID = passed,
                  !.userID = IF passed THEN authHeader.token.user_id ELSE 0]
    /\ UNCHANGED <<now, notReq>>

\* the Authorization headers a caller may send with a token: the exact
\* form, another scheme, another case, a second space, no token
AuthHeaders(token) ==
    {NoAuthHeader,
     [present |-> TRUE, parts |-> 2, scheme |-> "Bearer", token |-> token],
     [present |-> TRUE, parts |-> 2, scheme |-> "Basic", token |-> token],
     [present |-> TRUE, parts |-> 2, scheme |-> "bearer", token |-> token],
     [present |-> TRUE, parts |-> 3, scheme |-> "Bearer", token |-> token],
     [present |-> TRUE, parts |-> 1, scheme |-> "Bearer", token |-> NoToken]}

PresentedAuthHeaders == UNION {AuthHeaders(token) : token \in PresentedTokens}

\* the clock of the request scenario: tick by tick within a second, two
\* minutes, one day
GateMaxTime == StartTime + Day + 2 * Minute + Second

TickGate ==
    /\ \E d \in {1, Minute, Day} :
          /\ d = 1 => (now % Second) + 1 < Second
          /\ d = Minute => (now % Day) < 2 * Minute
          /\ d = Day => now < StartTime + Day
          /\ now + d <= GateMaxTime
          /\ now' = now + d
    /\ lastRequest' = NoRequest
    /\ UNCHANGED notReq

-----------------------------------------------------------------------------
(* Specifications *)

\* rows the table may hold when the process starts
ExistingKeyRows ==
    {[id |-> 1, key |-> "k1", description |-> "old",
      created_at |-> StartTime - Day, expires_at |-> e,
      is_active |-> a, user_id |-> NoUser] :
        e \in {ZeroTime, StartTime, StartTime + Day},
        a \in BOOLEAN}

IdleKeys ==
    /\ api_keys = {}
    /\ nextKeyID = 1
    /\ lastValidate = NoValidate
    /\ lastKeyDelete = NoKeyDelete
    /\ lastKeyOp = NoKeyOp
    /\ lastGenerate = NoGenerate

IdleJWT ==
    /\ tokenDuration = 1
    /\ lastIssue = NoIssue
    /\ lastJWT = NoJWT

IdleStore ==
    /\ activities = {}
    /\ lastUpsert = NoUpsert
    /\ lastGet = NoGet
    /\ lastDelete = NoDelete
    /\ applied = NoApplied

IdleAuth ==
    /\ users = {}
    /\ configToken = NoAccessToken
    /\ lastCallback = NoCallback
    /\ lastRefresh = NoRefresh

IdleReq == lastRequest = NoRequest

IdleCalls == calls = [p \in CallProcs |-> IdleCall]

IdleSyncVars ==
    /\ remote = [id \in ActivityIDs |-> NoRemote]
    /\ clientToken = NoAccessToken
    /\ tokenExpired = FALSE
    /\ sync = [p \in SyncProcs |-> IdleSync]
    /\ ticker = 0

InitKeys ==
    /\ IdleReq
    /\ IdleCalls
    /\ now = StartTime
    /\ api_keys \in {{}} \cup {{r} : r \in ExistingKeyRows}
    /\ nextKeyID = 2
    /\ lastValidate = NoValidate
    /\ lastKeyDelete = NoKeyDelete
    /\ lastKeyOp = NoKeyOp
    /\ lastGenerate = NoGenerate
    /\ IdleJWT
    /\ IdleStore
    /\ IdleSyncVars
    /\ IdleAuth

NextKeys ==
    \/ \E days \in -1 .. MaxExpiryDays : GenerateAPIKey("new", days)
    \/ \E key \in KeyMaterial,
          e \in {BadString, FormatRFC3339(now - Day)} :
          CreateAPIKey(key, "new", e)
    \/ \E id \in 1 .. MaxKeyID : DeleteAPIKey(id)
    \/ \E key \in KeyMaterial : ValidateAPIKeyCall(key)
    \/ TickKeys

SpecKeys == InitKeys /\ [][NextKeys]_vars

InitJWT ==
    /\ IdleReq
    /\ IdleCalls
    /\ now \in {StartTime, StartTime + 1}
    /\ tokenDuration \in 1 .. MaxTokenDuration
    /\ lastIssue = NoIssue
    /\ lastJWT = NoJWT
    /\ IdleKeys
    /\ IdleStore
    /\ IdleSyncVars
    /\ IdleAuth

NextJWT ==
    \/ \E userID \in AthleteIDs : GenerateJWT(userID)
    \/ \E token \in PresentedTokens : ValidateJWT(token)
    \/ TickJWT

SpecJWT == InitJWT /\ [][NextJWT]_vars

InitStore ==
    /\ IdleReq
    /\ IdleCalls
    /\ now = StartTime
    /\ IdleStore
    /\ IdleKeys
    /\ IdleJWT
    /\ IdleSyncVars
    /\ IdleAuth

NextStore ==
    \/ \E id \in StoreIDs, dist \in 1 .. MaxVersion :
          \E v \in {1, dist} : CreateActivity(id, ActivityData(dist, v))
    \/ \E id \in StoreIDs : GetActivityByID(id)
    \/ \E id \in StoreIDs : DeleteActivity(id)
    \/ TickStore

SpecStore == InitStore /\ [][NextStore]_vars

\* the provider's activities when the process starts: the first n ids, not
\* older with a higher id, started the second before the second of the
\* scheduler's cutoff or the second after it (whether the provider lists an
\* activity started in the very second of its after argument is not decided
\* in this repository)
RemoteStates ==
    {r \in [ActivityIDs ->
              {NoRemote} \cup
              {[present |-> TRUE, start |-> CutoffSecond + o, dist |-> 1] :
                 o \in {-1, 1}}] :
        \A i, j \in ActivityIDs :
            i < j => /\ r[j].present => r[i].present
                     /\ r[j].present => r[i].start <= r[j].start}

InitSync ==
    /\ IdleReq
    /\ IdleCalls
    /\ now \in {StartTime, StartTime + 1}
    /\ remote \in RemoteStates
    /\ clientToken \in {NoAccessToken, "token0"}
    /\ tokenExpired \in IF clientToken = NoAccessToken THEN {FALSE}
                                                        ELSE BOOLEAN
    /\ sync = [p \in SyncProcs |-> IdleSync]
    /\ ticker = 0
    /\ IdleStore
    /\ IdleKeys
    /\ IdleJWT
    /\ users = {}
    /\ configToken = clientToken
    /\ lastCallback = NoCallback
    /\ lastRefresh = NoRefresh

NextSync ==
    \/ TimerFires
    \/ SchedulerTick
    \/ \E days \in AdminDays : AdminSync(TRUE, days)
    \/ AdminSyncStart
    \/ \E p \in SyncProcs : FetchStep(p)
    \/ \E p \in SyncProcs : SaveStep(p)
    \/ \E p \in SyncProcs : ReturnStep(p)

SpecSync == InitSync /\ [][NextSync]_vars

\* the days an administrator may send
RequestDays == {-1, 0, 1, 2}

\* the scenario of the admin-triggered sync: one activity at the provider,
\* a token or none, the clock running
InitAdmin ==
    /\ IdleReq
    /\ IdleCalls
    /\ now = StartTime
    /\ remote \in {r \in RemoteStates : r[1].present /\ ~r[2].present}
    /\ clientToken \in {NoAccessToken, "token0"}
    /\ tokenExpired = FALSE
    /\ sync = [p \in SyncProcs |-> IdleSync]
    /\ ticker = 0
    /\ IdleStore
    /\ IdleKeys
    /\ IdleJWT
    /\ IdleAuth

NextAdmin ==
    \/ \E decodeOk \in BOOLEAN, days \in RequestDays :
          AdminSync(decodeOk, days)
    \/ AdminSyncStart
    \/ FetchStep("admin")
    \/ SaveStep("admin")
    \/ ReturnStep("admin")
    \/ TickSync

SpecAdmin == InitAdmin /\ [][NextAdmin]_vars

\* the scenario of the scheduler and a concurrent admin-triggered sync: one
\* activity at the provider that the athlete may edit, a token or none
InitSched ==
    /\ IdleReq
    /\ IdleCalls
    /\ now = StartTime
    /\ remote \in {r \in RemoteStates :
                     /\ r[1].present
                     /\ r[1].start > CutoffSecond
                     /\ ~r[2].present}
    /\ clientToken \in {NoAccessToken, "token0"}
    /\ tokenExpired = FALSE
    /\ sync = [p \in SyncProcs |-> IdleSync]
    /\ ticker = 0
    /\ IdleStore
    /\ IdleKeys
    /\ IdleJWT
    /\ IdleAuth

NextSched ==
    \/ TimerFires
    \/ SchedulerTick
    \/ \E days \in AdminDays : AdminSync(TRUE, days)
    \/ AdminSyncStart
    \/ \E p \in SyncProcs : FetchStep(p)
    \/ \E p \in SyncProcs : SaveStep(p)
    \/ \E p \in SyncProcs : ReturnStep(p)
    \/ \E id \in EditedIDs : RemoteEdit(id)

SpecSched == InitSched /\ [][NextSched]_vars

\* the scheduler's ticker keeps firing and its loop keeps running
SpecSchedFair ==
    /\ SpecSched
    /\ WF_vars(TimerFires)
    /\ WF_vars(SchedulerTick)

InitAuth ==
    /\ IdleReq
    /\ IdleCalls
    /\ now = StartTime
    /\ IdleAuth
    /\ IdleSyncVars
    /\ IdleKeys
    /\ IdleJWT
    /\ IdleStore

NextAuth ==
    \/ \E code \in AuthCodes :
          \E resp \in AuthorizeOutcomes(code), dbOk \in BOOLEAN :
              StravaCallback(code, resp, dbOk)
    \/ \E refreshToken \in RefreshTokens :
          \E resp \in AuthorizeOutcomes(refreshToken) :
              RefreshToken(refreshToken, resp)
    \/ \E id \in AthleteIDs : DeleteUser(id)
    \/ TickAuth

SpecAuth == InitAuth /\ [][NextAuth]_vars

InitGate ==
    /\ IdleReq
    /\ IdleCalls
    /\ now = StartTime
    /\ api_keys \in {{}} \cup {{r} : r \in ExistingKeyRows}
    /\ nextKeyID = 2
    /\ lastValidate = NoValidate
    /\ lastKeyDelete = NoKeyDelete
    /\ lastKeyOp = NoKeyOp
    /\ lastGenerate = NoGenerate
    /\ IdleJWT
    /\ IdleStore
    /\ IdleSyncVars
    /\ IdleAuth

NextGate ==
    \/ \E header, query \in KeyMaterial \cup {""} :
          APIKeyRequest(header, query)
    \/ \E userID \in AthleteIDs : GenerateJWT(userID)
    \/ \E authHeader \in PresentedAuthHeaders : AdminRequest(authHeader)
    \/ TickGate

SpecGate == InitGate /\ [][NextGate]_vars

-----------------------------------------------------------------------------
(* Claims on API keys *)

\* the validity rule of the specification, expiry strictly in the future
KeyValidStrict(row, t) ==
    /\ row # NoRow
    /\ row.is_active
    /\ (IsZero(row.expires_at) \/ row.expires_at > t)

\* the validity rule the code follows, expiry not in the past
KeyValidNotPast(row, t) ==
    /\ row # NoRow
    /\ row.is_active
    /\ (IsZero(row.expires_at) \/ row.expires_at >= t)

\* C1 as stated: ValidateAPIKey returns true exactly when the stored key is
\* active and has no expiry or an expiry later than now.
C1_ValidateExactlyStrict ==
    lastValidate.called =>
        lastValidate.result = KeyValidStrict(lastValidate.row, lastValidate.at)

\* C1 amended: ValidateAPIKey returns true exactly when the stored key is
\* active and has no expiry or an expiry that is not earlier than now (a key
\* whose expiry equals now still validates); false in every other case.
C1_ValidateExactlyNotPast ==
    lastValidate.called =>
        lastValidate.result = KeyValidNotPast(lastValidate.row, lastValidate.at)

\* a key validated at the very instant of its expiry
C1_Witness ==
    /\ lastValidate.called
    /\ lastValidate.row # NoRow
    /\ lastValidate.row.is_active
    /\ lastValidate.row.expires_at = lastValidate.at
    /\ lastValidate.result

\* C5: a key generated with expiryDays = 0 validates at every later time,
\* as long as its row is stored and active.
C5_ZeroExpiryNeverExpires ==
    (lastGenerate.called /\ lastGenerate.ok /\ lastGenerate.expiryDays = 0) =>
        /\ \A r \in RowsByID(lastGenerate.id) :
              r.is_active => ValidateAPIKey(r.key)
        /\ (/\ lastValidate.called
            /\ ~lastValidate.err
            /\ lastValidate.row.id = lastGenerate.id
            /\ lastValidate.row.is_active) => lastValidate.result

\* such a key validated ten years after its creation
C5_Witness ==
    /\ lastGenerate.called
    /\ lastGenerate.ok
    /\ lastGenerate.expiryDays = 0
    /\ lastValidate.called
    /\ lastValidate.row.id = lastGenerate.id
    /\ lastValidate.at >= lastValidate.row.created_at + TenYears
    /\ lastValidate.result

-----------------------------------------------------------------------------
(* Claims on session tokens *)

\* the end of validity GenerateJWT aims at: issue time plus the duration
IssuedUntil == lastIssue.at + tokenDuration * Minute

\* the token under validation is the one GenerateJWT made last
GenuineToken == lastIssue.called /\ lastJWT.token = lastIssue.token

\* the token under validation is signed with another key or names a method
\* that is not HMAC
ForeignToken ==
    lastJWT.token.key # JWTSecret \/ lastJWT.token.alg \notin HMACMethods

\* C4 as stated: a token issued at t with duration d validates at any time
\* before t+d and yields its subject, fails at any time after t+d, and a
\* token under another key or a non-HMAC method always fails.
C4_ValidUntilExactExpiry ==
    lastJWT.called =>
        /\ GenuineToken =>
            /\ lastJWT.at < IssuedUntil =>
                 lastJWT.ok /\ lastJWT.user_id = lastIssue.token.user_id
            /\ lastJWT.at > IssuedUntil => ~lastJWT.ok
        /\ ForeignToken => ~lastJWT.ok

\* C4 amended: the token validates, and yields its subject, at any time up
\* to the end of the clock second that holds t+d (so at any time before t+d,
\* and for less than a second after it); it fails from the next second on;
\* a token under another key or a non-HMAC method always fails.
C4_ValidUntilExpirySecond ==
    lastJWT.called =>
        /\ GenuineToken =>
            /\ lastJWT.ok <=> Unix(lastJWT.at) <= Unix(IssuedUntil)
            /\ lastJWT.ok => lastJWT.user_id = lastIssue.token.user_id
        /\ ForeignToken => ~lastJWT.ok

\* a genuine token accepted after t+d, within the second of t+d
C4_Witness ==
    /\ lastJWT.called
    /\ GenuineToken
    /\ lastJWT.at > IssuedUntil
    /\ lastJWT.ok
    /\ lastJWT.user_id = lastIssue.token.user_id

-----------------------------------------------------------------------------
(* Claims on the activity store *)

\* C2: an upsert of an id that has a row keeps the row's created_at (the
\* time of the insert that made the row), stores the new value in every
\* other data column, and sets updated_at to the time of this upsert, also
\* when no value differs.
C2_UpsertKeepsCreatedAt ==
    (lastUpsert.called /\ lastUpsert.ok /\ lastUpsert.before # NoActivity) =>
        /\ lastUpsert.returned.created_at = lastUpsert.before.created_at
        /\ lastUpsert.returned.created_at = applied[lastUpsert.id].inserted
        /\ \A c \in DataColumns :
              lastUpsert.returned.data[c] = lastUpsert.data[c]
        /\ lastUpsert.returned.updated_at = lastUpsert.at
        /\ ActivityRows(lastUpsert.id) = {lastUpsert.returned}

\* an upsert, later than the insert, that changes no value of the row
C2_Witness ==
    /\ lastUpsert.called
    /\ lastUpsert.ok
    /\ lastUpsert.before # NoActivity
    /\ lastUpsert.before.data = lastUpsert.data
    /\ lastUpsert.before.created_at < lastUpsert.at
    /\ lastUpsert.before.updated_at < lastUpsert.returned.updated_at

\* C3: the store holds at most one row per id, and a fetch by id returns
\* the values of the upsert applied last for that id.
C3_OneRowPerIdLastUpsertWins ==
    /\ \A id \in StoreIDs : Cardinality(ActivityRows(id)) <= 1
    /\ \A r \in activities : r.data = applied[r.id].data
    /\ (lastGet.called /\ lastGet.found) =>
           lastGet.row.data = applied[lastGet.id].data

\* a second upsert of an id changed its distance, and the fetch that
\* followed returned the row with the second distance
C3_Witness ==
    /\ lastUpsert.called
    /\ lastUpsert.ok
    /\ lastUpsert.before # NoActivity
    /\ lastUpsert.before.data["distance"] # lastUpsert.data["distance"]
    /\ lastGet.called
    /\ lastGet.found
    /\ lastGet.id = lastUpsert.id
    /\ lastGet.row.data["distance"] = lastUpsert.data["distance"]

-----------------------------------------------------------------------------
(* Claims on the sync cycle *)

\* the cutoff of p's cycle is later than the start of every remote activity
CutoffAfterAll(p) ==
    \A a \in RemoteActivities : FromUnix(a.start) < sync[p].cutoff

\* the records p's cycle has dealt with so far
Attempted(p) ==
    Cardinality(sync[p].saved) + sync[p].convertErrors + sync[p].saveErrors

\* C6: a cycle whose cutoff is later than the start of every remote
\* activity performs no upsert and leaves the activity store as it is, at
\* every step it takes.
C6_FutureCutoffNoUpsert ==
    [][\A p \in SyncProcs :
          (sync'[p] # sync[p] /\ sync'[p].pc # "idle" /\ CutoffAfterAll(p)') =>
              /\ activities' = activities
              /\ sync'[p].fetched = <<>>
              /\ Attempted(p)' = 0]_vars

\* such a cycle, with activities at the provider, has called the provider
\* and returned nil
C6_Witness ==
    \E p \in SyncProcs :
        /\ sync[p].pc = "done"
        /\ sync[p].result = "nil"
        /\ sync[p].call.made
        /\ RemoteActivities # {}
        /\ CutoffAfterAll(p)

\* C7: when a cycle returns without a fetch error and without a failed
\* record, every remote activity started at or after its cutoff is stored.
C7_AllSinceCutoffStored ==
    \A p \in SyncProcs :
        (/\ sync[p].pc = "done"
         /\ sync[p].result = "nil"
         /\ sync[p].convertErrors = 0
         /\ sync[p].saveErrors = 0) =>
            \A a \in RemoteActivities :
                FromUnix(a.start) >= sync[p].cutoff => ActivityRows(a.id) # {}

\* the cycle of p got its list from the provider and returned
Returned(p) == sync[p].pc = "done" /\ sync[p].result # "error"

\* a failed record does not end the batch: every fetched record was dealt
\* with, the saved ones are stored, and the cycle returned nil
BatchCompleted(p) ==
    /\ sync[p].result = "nil"
    /\ Attempted(p) = Len(sync[p].fetched)
    /\ \A id \in sync[p].saved : ActivityRows(id) # {}

\* the numbers the cycle of p reported: the count of its "Fetched %d
\* activities" log line; the return value is an error or nil
ReportedCounts(p) == {sync[p].loggedFetched}

C9_FetchOnlyWithUsableToken ==
    \A p \in SyncProcs :
        sync[p].call.made => TokenUsable(sync[p].call.token)

-----------------------------------------------------------------------------
(* Claims on the OAuth callback *)

\* C10: when the callback answers with a session token, the users table
\* holds the row of the token's subject with the access token just granted,
\* and the callback made exactly one write to that table.
C10_TokenImpliesIdentityPersisted ==
    (lastCallback.called /\ lastCallback.status = 200) =>
        /\ \E r \in users :
              /\ r.id = lastCallback.token.user_id
              /\ r.access_token = lastCallback.access_token
        /\ lastCallback.writes = 1

\* C11: RefreshToken fails without asking the provider when the refresh
\* token is empty; it fails and leaves the current token as it is when the
\* provider refuses; when it succeeds the users row of that athlete holds
\* the new access token, and nothing else of table users has changed.
C11_RefreshReplacesStoredToken ==
    lastRefresh.called =>
        /\ lastRefresh.refresh_token = "" =>
              (~lastRefresh.asked /\ ~lastRefresh.ok)
        /\ ~lastRefresh.ok =>
              /\ clientToken = lastRefresh.clientBefore
              /\ configToken = lastRefresh.configBefore
              /\ users = lastRefresh.usersBefore
        /\ lastRefresh.ok =>
              /\ \A r \in UserRows(lastRefresh.athlete) :
                    r.access_token = lastRefresh.access_token
              /\ \A r \in users :
                    r.id # lastRefresh.athlete => r \in lastRefresh.usersBefore

\* C12: an identity that was authorized can be refreshed when its token
\* expires: the users row written at authorization holds a refresh token
\* (RefreshToken ends without asking the provider when given an empty one),
\* so that the step from an expiring token back to a fresh one can happen.
C12_StoredIdentityRefreshable ==
    \A r \in users : r.refresh_token \in RefreshTokens \ {""}

-----------------------------------------------------------------------------
(* Claims on the middlewares *)

\* the rows of the key a data request carried that are active and not past
\* their expiry when the request came
UsableKeyRows(req) ==
    {r \in RowsByKey(req.apiKey) :
        r.is_active /\ (IsZero(r.expires_at) \/ ~Before(r.expires_at, req.at))}

\* the handler behind the API-key middleware runs only for a key that was
\* supplied and is stored active and unexpired, and then with no user id in
\* the context
DataHandlerOnlyWithUsableKey(req) ==
    /\ req.handlerRan => (req.apiKey # "" /\ UsableKeyRows(req) # {})
    /\ req.handlerRan => ~req.hasUserID
    /\ (req.header # "" \/ req.query # "") <=> req.apiKey # ""

\* C13 as stated: the handler runs only for a usable key, and a request
\* with no key or with a key that is unknown, inactive or expired is
\* answered 401 without the handler running.
C13_UnusableKeyAnswered401 ==
    (lastRequest.called /\ lastRequest.route = "data") =>
        /\ DataHandlerOnlyWithUsableKey(lastRequest)
        /\ UsableKeyRows(lastRequest) = {} =>
              /\ ~lastRequest.handlerRan
              /\ lastRequest.status = StatusUnauthorized

\* C13 amended: as above, but a request that carries a key is answered 500
\* when the lookup of the key fails, whatever the key; it is answered 401
\* when no key was supplied or the lookup shows no usable key.
C13_UnusableKeyAnswered401Or500 ==
    (lastRequest.called /\ lastRequest.route = "data") =>
        /\ DataHandlerOnlyWithUsableKey(lastRequest)
        /\ lastRequest.handlerRan <=> lastRequest.status = StatusNone
        /\ UsableKeyRows(lastRequest) = {} =>
              /\ ~lastRequest.handlerRan
              /\ lastRequest.status \in
                    {StatusUnauthorized, StatusInternalServerError}
        /\ lastRequest.apiKey = "" =>
              lastRequest.status = StatusUnauthorized
        /\ lastRequest.status = StatusInternalServerError =>
              lastRequest.apiKey # ""

\* a request whose key is stored active but past its expiry was answered 401
C13_Witness ==
    /\ lastRequest.called
    /\ lastRequest.route = "data"
    /\ lastRequest.status = StatusUnauthorized
    /\ ~lastRequest.handlerRan
    /\ \E r \in RowsByKey(lastRequest.apiKey) :
          /\ r.is_active
          /\ ~IsZero(r.expires_at)
          /\ Before(r.expires_at, lastRequest.at)

\* C14: the handler behind the session middleware runs exactly when the
\* Authorization header is there, has the form "Bearer <token>" and the
\* token is signed with the service's key by an HMAC method and not
\* expired; otherwise the answer is 401; when the handler runs the userID
\* of its context is the subject of the token.
C14_AdminHandlerOnlyWithValidBearer ==
    (lastRequest.called /\ lastRequest.route = "admin") =>
        LET h == lastRequest.authHeader
        IN  /\ lastRequest.handlerRan <=>
                  /\ h.present
                  /\ h.parts = 2
                  /\ h.scheme = "Bearer"
                  /\ h.token.wellFormed
                  /\ h.token.alg \in HMACMethods
                  /\ h.token.key = JWTSecret
                  /\ ClaimsUnexpired(h.token, lastRequest.at)
            /\ ~lastRequest.handlerRan =>
                  lastRequest.status = StatusUnauthorized
            /\ lastRequest.handlerRan =>
                  /\ lastRequest.hasUserID
                  /\ lastRequest.userID = h.token.user_id

\* the handler ran for the token issued to athlete 2, later than the issue
C14_Witness ==
    /\ lastRequest.called
    /\ lastRequest.route = "admin"
    /\ lastRequest.handlerRan
    /\ lastIssue.called
    /\ lastRequest.authHeader.token = lastIssue.token
    /\ lastRequest.userID = 2
    /\ lastIssue.at < lastRequest.at

-----------------------------------------------------------------------------
(* Claims on the dispatch of syncs *)

\* the window an admin request asks for: n days, one day for n <= 0
WindowAsked(n) == (IF n <= 0 THEN 1 ELSE n) * HoursPerDay * Hour

\* the goroutine of the admin request has read the clock
AdminStarted == sync["admin"].pc \in {"fetch", "save", "done"}

\* C15 as stated: the sync an admin request dispatches has the cutoff
\* request time minus n * 24 hours, with n = 1 for days <= 0.
C15_CutoffFromRequestTime ==
    AdminStarted =>
        sync["admin"].cutoff =
            sync["admin"].requested - WindowAsked(sync["admin"].asked)

\* C15 amended: the cutoff is the time at which the dispatched goroutine
\* starts to run, which is not before the request, minus n * 24 hours,
\* with n = 1 for days <= 0; the limit is the same for every n.
C15_CutoffFromStartTime ==
    AdminStarted =>
        /\ sync["admin"].cutoff =
               sync["admin"].started - WindowAsked(sync["admin"].asked)
        /\ sync["admin"].requested <= sync["admin"].started
        /\ sync["admin"].limit = PageSize

\* a request with days <= 0 whose goroutine started later than the request
C15_Witness ==
    /\ AdminStarted
    /\ sync["admin"].asked <= 0
    /\ sync["admin"].requested < sync["admin"].started
    /\ sync["admin"].cutoff = sync["admin"].started - HoursPerDay * Hour

\* C16: the handler of POST /admin/sync answers "sync started" when it has
\* started the goroutine and before that goroutine has done anything (a
\* body that does not decode is answered 400 and starts nothing); no step
\* of the sync changes the answer, whatever its outcome.
C16_ReplyBeforeAndWhateverTheSync ==
    [][/\ (lastRequest' # lastRequest /\ lastRequest'.route = "sync") =>
              \/ /\ lastRequest'.status = StatusOK
                 /\ lastRequest'.body = "sync started"
                 /\ sync'["admin"].pc = "spawned"
                 /\ sync'["admin"].result = "none"
                 /\ ~sync'["admin"].call.made
              \/ /\ lastRequest'.status = StatusBadRequest
                 /\ lastRequest'.body = "Invalid request body"
                 /\ sync' = sync
       /\ (sync["admin"].pc \in {"spawned", "fetch", "save"}) =>
              lastRequest' = lastRequest]_vars

\* the answer "sync started" stands while the sync it started has failed
C16_Witness ==
    /\ lastRequest.route = "sync"
    /\ lastRequest.body = "sync started"
    /\ sync["admin"].pc = "done"
    /\ sync["admin"].result = "error"

\* a sync of the scheduler is running
SchedRunning == sync["sched"].pc \in {"fetch", "save"}

\* C17 as stated: a tick starts its sync also while the sync of the
\* previous tick is running (the two overlap): no tick waits for a
\* running sync.
C17_TickNeverWaits == ~(ticker > 0 /\ SchedRunning)

\* C17 amended: a sync of the scheduler starts only when none is running,
\* takes exactly one tick out of the ticker's channel and has the cutoff 24
\* hours back; the channel holds at most one tick, so a tick that fires
\* during a sync waits for its end and a further one is dropped.
C17_OneHeldTickPerSync ==
    [][/\ (sync'["sched"].pc = "fetch" /\ sync'["sched"] # sync["sched"]) =>
              /\ ~SchedRunning
              /\ ticker > 0
              /\ ticker' = ticker - 1
              /\ sync'["sched"].cutoff = now - HoursPerDay * Hour
       /\ ticker' \in 0 .. TickerCapacity
       /\ ticker' # ticker => sync' = sync \/ sync'["sched"].pc = "fetch"]_vars

\* a tick is held while a sync of the scheduler is running
C17_Witness == ticker = TickerCapacity /\ SchedRunning

\* C18: a cycle in FetchActivities can take its next step whatever the
\* other cycle is doing: nothing makes it wait.
C18_NoGuardBetweenCycles ==
    \A p \in SyncProcs :
        /\ sync[p].pc = "fetch" => ENABLED FetchStep(p)
        /\ (sync[p].pc = "save" /\ sync[p].idx <= Len(sync[p].fetched)) =>
               ENABLED SaveStep(p)

\* both cycles were in flight together and upserted the same activity; the
\* one that had fetched it before the athlete's edit wrote last, so that the
\* store holds the older distance
C18_Witness ==
    /\ sync["sched"].pc = "save"
    /\ sync["admin"].pc = "save"
    /\ 1 \in sync["sched"].saved \cap sync["admin"].saved
    /\ \E r \in ActivityRows(1) :
          /\ r.data["distance"] = 1
          /\ remote[1].dist = 2
    /\ \E p \in SyncProcs : sync[p].fetched[1].dist = 2

\* C19: after a sync of the scheduler that failed, the scheduler starts
\* another sync.
C19_FailedSyncIsFollowed ==
    (sync["sched"].pc = "done" /\ sync["sched"].result = "error")
        ~> (sync["sched"].pc = "fetch")

\* a sync of the scheduler has failed at the provider
C19_Witness ==
    /\ sync["sched"].pc = "done"
    /\ sync["sched"].result = "error"
    /\ sync["sched"].call.made

-----------------------------------------------------------------------------
(* Claims on repeated authorization *)

\* the callback that has just been answered wrote the athlete's row
CallbackWrote(cb) == cb.called /\ cb.status = 200 /\ ~cb.saveErr

\* C20: table users never holds two rows of one athlete; a callback whose
\* write is applied leaves the athlete's row with the tokens of that write
\* (the new access token and the empty refresh token) and the other rows as
\* they were, and a callback without an applied write leaves the table as
\* it was.
C20_OneRowPerAthleteLastWriteWins ==
    [][/\ \A r1, r2 \in users' : r1.id = r2.id => r1 = r2
       /\ (lastCallback'.called /\ CallbackWrote(lastCallback')) =>
              /\ \E r \in users' :
                    /\ r.id = lastCallback'.athlete
                    /\ r.access_token = lastCallback'.access_token
                    /\ r.refresh_token = ""
              /\ {r \in users' : r.id # lastCallback'.athlete} =
                     {r \in users : r.id # lastCallback'.athlete}
       /\ (lastCallback'.called /\ ~CallbackWrote(lastCallback')) =>
              users' = users]_vars

\* an athlete has authorized again: the row inserted earlier holds the
\* access token of the later callback
C20_Witness ==
    /\ CallbackWrote(lastCallback)
    /\ Cardinality(UserRows(lastCallback.athlete)) = 1
    /\ \E r \in UserRows(lastCallback.athlete) :
          /\ r.created_at < r.updated_at
          /\ r.access_token = lastCallback.access_token

-----------------------------------------------------------------------------
(* Sync cycles and deletions on one store *)

\* a row an earlier cycle has stored
StoredBefore(id) ==
    [id |-> id, data |-> ActivityData(1, 1), created_at |-> StartTime - Day,
     updated_at |-> StartTime - Day]

\* the history of the rows stored before
AppliedBefore ==
    [id \in ActivityIDs \cup StoreIDs |->
        IF ActivityRows(id) = {} THEN NoApplied[id]
        ELSE [data |-> ActivityData(1, 1), inserted |-> StartTime - Day]]

\* the scenario: rows of earlier cycles in the store, some of them no longer
\* listed by the provider; admin-triggered cycles and deletions
InitKeep ==
    /\ IdleReq
    /\ IdleCalls
    /\ now = StartTime
    /\ remote \in {r \in RemoteStates : r[1].present /\ ~r[3].present}
    /\ clientToken \in {NoAccessToken, "token0"}
    /\ tokenExpired = FALSE
    /\ sync = [p \in SyncProcs |-> IdleSync]
    /\ ticker = 0
    /\ activities \in SUBSET {StoredBefore(id) : id \in StoreIDs}
    /\ applied = AppliedBefore
    /\ lastUpsert = NoUpsert
    /\ lastGet = NoGet
    /\ lastDelete = NoDelete
    /\ IdleKeys
    /\ IdleJWT
    /\ IdleAuth

NextKeep ==
    \/ \E days \in AdminDays : AdminSync(TRUE, days)
    \/ AdminSyncStart
    \/ FetchStep("admin")
    \/ SaveStep("admin")
    \/ ReturnStep("admin")
    \/ \E id \in StoreIDs : DeleteActivity(id)

SpecKeep == InitKeep /\ [][NextKeep]_vars

\* the ids of the stored activities
StoredIDs(table) == {r.id : r \in table}

\* C21: every step of a sync cycle leaves each stored id in the store; an
\* id leaves the store only in a step of DeleteActivity, which removes the
\* rows of one id and moves no cycle.
C21_SyncNeverRemoves ==
    [][/\ sync' # sync => StoredIDs(activities) \subseteq StoredIDs(activities')
       /\ ~(StoredIDs(activities) \subseteq StoredIDs(activities')) =>
              /\ sync' = sync
              /\ \E id \in StoredIDs(activities) :
                    activities' = activities \ ActivityRows(id)]_vars

\* a cycle has ended having stored an activity, and the store still holds a
\* row the provider did not list for it
C21_Witness ==
    /\ sync["admin"].pc = "done"
    /\ sync["admin"].result = "nil"
    /\ sync["admin"].saved # {}
    /\ \E r \in activities :
          /\ \A i \in 1 .. Len(sync["admin"].fetched) :
                sync["admin"].fetched[i].id # r.id
          /\ r.updated_at < sync["admin"].started

-----------------------------------------------------------------------------
(* API keys and their owners *)

\* an athlete who authorized before the process started
ExistingUserRow(id) ==
    [id |-> id, username |-> NoUsername, access_token |-> "tokenA",
     refresh_token |-> "", created_at |-> StartTime - Day,
     updated_at |-> StartTime - Day]

\* the scenario: athlete 1 is stored, a key may be stored; keys are given
\* owners, validated, and athletes deleted
InitOwner ==
    /\ IdleReq
    /\ IdleCalls
    /\ now = StartTime
    /\ api_keys \in {{}} \cup {{r} : r \in ExistingKeyRows}
    /\ nextKeyID = 2
    /\ lastValidate = NoValidate
    /\ lastKeyDelete = NoKeyDelete
    /\ lastKeyOp = NoKeyOp
    /\ lastGenerate = NoGenerate
    /\ users = {ExistingUserRow(1)}
    /\ configToken = NoAccessToken
    /\ lastCallback = NoCallback
    /\ lastRefresh = NoRefresh
    /\ IdleJWT
    /\ IdleStore
    /\ IdleSyncVars

NextOwner ==
    \/ \E key \in KeyMaterial, userID \in AthleteIDs :
          AssociateAPIKeyWithUser(key, userID)
    \/ \E id \in AthleteIDs : DeleteUser(id)
    \/ \E key \in KeyMaterial : ValidateAPIKeyCall(key)
    \/ TickKeys

SpecOwner == InitOwner /\ [][NextOwner]_vars

\* C22: a step that deletes an athlete's row leaves table api_keys as it
\* was, the keys of that athlete included, and ValidateAPIKey gives for
\* every key the result it gave before.
C22_DeleteUserLeavesKeys ==
    [][users' # users =>
          /\ api_keys' = api_keys
          /\ \A key \in KeyMaterial :
                ValidateAPIKey(key)' = ValidateAPIKey(key)]_vars

\* the key of a deleted athlete is stored and has just been found valid
C22_Witness ==
    /\ users = {}
    /\ lastValidate.called
    /\ lastValidate.result
    /\ lastValidate.row.user_id = 1
    /\ lastValidate.row \in api_keys

-----------------------------------------------------------------------------
(* Reading one activity over HTTP *)

\* the scenario: rows of earlier cycles in the store; activities are
\* stored, deleted and asked for over HTTP
InitRead ==
    /\ IdleReq
    /\ IdleCalls
    /\ now = StartTime
    /\ activities \in SUBSET {StoredBefore(id) : id \in StoreIDs}
    /\ applied = AppliedBefore
    /\ lastUpsert = NoUpsert
    /\ lastGet = NoGet
    /\ lastDelete = NoDelete
    /\ IdleKeys
    /\ IdleJWT
    /\ IdleSyncVars
    /\ IdleAuth

NextRead ==
    \/ \E idOk \in BOOLEAN, id \in StoreIDs : GetActivityRequest(idOk, id)
    \/ \E id \in StoreIDs, dist \in 1 .. MaxVersion :
          CreateActivity(id, ActivityData(dist, 1))
    \/ \E id \in StoreIDs : DeleteActivity(id)

SpecRead == InitRead /\ [][NextRead]_vars

\* the handler has just asked the store for an id that has no row
AbsentAsked ==
    /\ lastRequest.route = "activity"
    /\ lastGet.called
    /\ ActivityRows(lastGet.id) = {}

\* C23: a request for an activity that has no row in the store is answered
\* 404.
C23_AbsentAnswered404 ==
    AbsentAsked => lastRequest.status = StatusNotFound

-----------------------------------------------------------------------------
(* Listing activities over HTTP *)

InitList ==
    /\ IdleReq
    /\ IdleCalls
    /\ now = StartTime
    /\ IdleStore
    /\ IdleKeys
    /\ IdleJWT
    /\ IdleSyncVars
    /\ IdleAuth

NextList ==
    \E limitStr \in QueryParams, offsetStr \in QueryParams :
        ListActivitiesRequest(limitStr, offsetStr)

SpecList == InitList /\ [][NextList]_vars

\* the parameter is a decimal integer for which ok holds
ParsesAs(str, ok(_)) == str.kind = "int" /\ ok(str.n)

\* C24: the list handler asks the store with the limit parameter when it
\* parses as an integer > 0 and with 20 otherwise, and with the offset
\* parameter when it parses as an integer >= 0 and with 0 otherwise; the
\* limit it asks with is > 0 and the offset >= 0.
C24_EffectiveLimitAndOffset ==
    lastRequest.route = "list" =>
        /\ lastRequest.limit =
              IF ParsesAs(lastRequest.params.limit, LAMBDA n : n > 0)
              THEN lastRequest.params.limit.n ELSE 20
        /\ lastRequest.offset =
              IF ParsesAs(lastRequest.params.offset, LAMBDA n : n >= 0)
              THEN lastRequest.params.offset.n ELSE 0
        /\ lastRequest.limit > 0
        /\ lastRequest.offset >= 0

\* limit=0 and offset=-1 were sent and the defaults were used
C24_Witness ==
    /\ lastRequest.route = "list"
    /\ lastRequest.params.limit = [kind |-> "int", n |-> 0]
    /\ lastRequest.params.offset = [kind |-> "int", n |-> -1]
    /\ lastRequest.limit = DefaultLimit
    /\ lastRequest.offset = DefaultOffset

-----------------------------------------------------------------------------
(* Create, read, update and delete by id, as the tests of package db do *)

\* the values a caller of UpdateAPIKey may pass for a stored row: the row
\* as read or without its creation time, with a new description and expiry
UpdateArguments ==
    UNION {{[r EXCEPT !.description = "updated", !.expires_at = now + Day,
                      !.created_at = c] : c \in {r.created_at, ZeroTime}} :
             r \in api_keys}

InitCrud ==
    /\ IdleReq
    /\ IdleCalls
    /\ now = StartTime
    /\ api_keys \in {{}} \cup {{r} : r \in ExistingKeyRows}
    /\ nextKeyID = 2
    /\ lastValidate = NoValidate
    /\ lastKeyDelete = NoKeyDelete
    /\ lastKeyOp = NoKeyOp
    /\ lastGenerate = NoGenerate
    /\ activities \in SUBSET {StoredBefore(1)}
    /\ applied = AppliedBefore
    /\ lastUpsert = NoUpsert
    /\ lastGet = NoGet
    /\ lastDelete = NoDelete
    /\ IdleJWT
    /\ IdleSyncVars
    /\ IdleAuth

NextCrud ==
    \/ CreateActivity(1, ActivityData(1, 1))
    \/ \E id \in StoreIDs : GetActivityByID(id)
    \/ \E id \in StoreIDs : DeleteActivity(id)
    \/ \E key \in KeyMaterial : CreateAPIKey(key, "new", NilString)
    \/ \E id \in 1 .. MaxKeyID : ReadAPIKeyByID(id)
    \/ \E apiKey \in UpdateArguments : UpdateAPIKey(apiKey)
    \/ \E id \in 1 .. MaxKeyID : DeleteAPIKey(id)

SpecCrud == InitCrud /\ [][NextCrud]_vars

\* C25: while no record has been created since a delete by id that returned
\* no error, a read of that id returns an error and no record, for
\* activities and for API keys.
C25_DeletedIsNotRead ==
    /\ (/\ lastDelete.called
        /\ ~lastDelete.err
        /\ lastGet.called
        /\ lastGet.id = lastDelete.id) =>
           /\ ~lastGet.found
           /\ lastGet.row = NoActivity
    /\ (/\ lastKeyDelete.called
        /\ ~lastKeyDelete.err
        /\ lastKeyOp.op = "read"
        /\ lastKeyOp.id = lastKeyDelete.id) =>
           /\ lastKeyOp.err
           /\ lastKeyOp.row = NoRow

\* an activity and an API key that were stored have been deleted and then
\* asked for
C25_Witness ==
    /\ lastDelete.called
    /\ ~lastDelete.err
    /\ lastDelete.removed = 1
    /\ lastGet.called
    /\ lastGet.id = lastDelete.id
    /\ ~lastGet.found
    /\ lastKeyDelete.called
    /\ ~lastKeyDelete.err
    /\ lastKeyOp.op = "read"
    /\ lastKeyOp.id = lastKeyDelete.id
    /\ lastKeyOp.err

\* C26: UpdateAPIKey on a stored row, the database being reached, returns
\* without an error the row with the description, expiry, id, key and
\* active flag it was given and the creation time of the stored row, which
\* the table then holds.
C26_UpdateSucceedsKeepingCreatedAt ==
    [][(/\ lastKeyOp'.op = "update"
        /\ lastKeyOp'.reached
        /\ RowsByID(lastKeyOp'.id) # {}) =>
           /\ ~lastKeyOp'.err
           /\ \E old \in RowsByID(lastKeyOp'.id) :
                 /\ lastKeyOp'.row =
                       [lastKeyOp'.given EXCEPT
                           !.created_at = old.created_at]
                 /\ lastKeyOp'.row \in api_keys']_vars

-----------------------------------------------------------------------------
(* Claims on the scheduler's loop *)

\* the scheduler's sync has moved on from where it was
SchedAdvanced ==
    \/ sync["sched"].pc = "fetch" /\ sync'["sched"].pc \in {"save", "done"}
    \/ /\ sync["sched"].pc = "save"
       /\ sync'["sched"].pc \in {"save", "done"}
       /\ sync'["sched"].idx >= sync["sched"].idx
       /\ sync'["sched"].call = sync["sched"].call

\* C27: while a sync of the scheduler is running, every step leaves it where
\* it was or moves it on towards its end (no second one is started in its
\* place); a tick that fires meanwhile is kept in the ticker's channel when
\* that is empty and is lost otherwise, and starts nothing.
C27_SchedulerSyncsSerialized ==
    [][SchedRunning =>
          /\ sync'["sched"] = sync["sched"] \/ SchedAdvanced
          /\ ticker' # ticker =>
                /\ sync' = sync
                /\ ticker = 0
                /\ ticker' = TickerCapacity
          /\ ticker = TickerCapacity => ticker' = ticker]_vars

\* a sync of the scheduler is storing while the tick that fired during it
\* waits in the channel, where a further tick has no room
C27_Witness ==
    /\ sync["sched"].pc = "save"
    /\ sync["sched"].saved # {}
    /\ ticker = TickerCapacity
    /\ ENABLED TimerFires
    /\ ~ENABLED SchedulerTick

-----------------------------------------------------------------------------
(* Concurrent callbacks and refreshes *)

\* the scenario: two callback requests and one refresh, each run once, in
\* any interleaving of their statements
InitRace ==
    /\ IdleReq
    /\ IdleCalls
    /\ now = StartTime
    /\ IdleAuth
    /\ IdleSyncVars
    /\ IdleKeys
    /\ IdleJWT
    /\ IdleStore

NextRace ==
    \/ \E p \in CallbackProcs, code \in AuthCodes :
          \E resp \in AuthorizeOutcomes(code) : CallAuthorize(p, code, resp)
    \/ \E p \in RefreshProcs, refreshToken \in RefreshTokens :
          \E resp \in AuthorizeOutcomes(refreshToken) :
              CallAuthorize(p, refreshToken, resp)
    \/ \E p \in CallProcs : CallSetClient(p)
    \/ \E p \in CallProcs : CallSetConfig(p)
    \/ \E p \in CallbackProcs : CallSaveAthlete(p)

SpecRace == InitRace /\ [][NextRace]_vars

\* every callback and refresh that was started has returned, and one of
\* them had its exchange accepted
AllCallsCompleted ==
    /\ \A p \in CallProcs : calls[p].pc \in {"idle", "done"}
    /\ \E p \in CallProcs : calls[p].pc = "done" /\ calls[p].ok

\* C28: once all callbacks and refreshes have completed, the token of the
\* sync client is the token of the configuration, and it is the token of
\* one completed exchange.
C28_ClientAndConfigAgree ==
    AllCallsCompleted =>
        /\ clientToken = configToken
        /\ \E p \in CallProcs :
              /\ calls[p].pc = "done"
              /\ calls[p].ok
              /\ calls[p].access_token = clientToken

-----------------------------------------------------------------------------
(* Creating API keys over HTTP *)

\* Server.createKeyHandler: POST /admin/keys. The body is decoded, then
\* Service.GenerateAPIKey stores the key, then DB.AssociateAPIKeyWithUser
\* sets its owner; each error is answered at once, and the key is answered
\* when none occurred
CreateKeyRequest(decodeOk, description, expiryDays, userID) ==
    /\ nextKeyID <= MaxKeyID
    /\ \E randOk \in BOOLEAN, key \in KeyMaterial, dbOk \in BOOLEAN,
          associateOk \in BOOLEAN :
          LET out == CreateAPIKeyOutcome(key, description,
                                         GenerateExpiresAt(expiryDays), dbOk)
              answer(status, body, returned) ==
                  [NoRequest EXCEPT !.called = TRUE, !.route = "keys",
                                    !.at = now, !.handlerRan = TRUE,
                                    !.hasUserID = TRUE, !.userID = userID,
                                    !.status = status, !.body = body,
                                    !.key = returned]
          IN  IF ~decodeOk
              THEN /\ lastRequest' = answer(StatusBadRequest,
                                            "Invalid request body", "")
                   /\ UNCHANGED <<api_keys, nextKeyID, lastGenerate>>
              ELSE IF ~randOk
              THEN /\ lastRequest' = answer(StatusInternalServerError,
                                            "Error creating API key", "")
                   /\ lastGenerate' = [called |-> TRUE, ok |-> FALSE,
                                       id |-> 0, expiryDays |-> expiryDays]
                   /\ UNCHANGED <<api_keys, nextKeyID>>
              ELSE /\ lastGenerate' =
                         [called |-> TRUE, ok |-> out.ok, id |-> out.row.id,
                          expiryDays |-> expiryDays]
                   /\ nextKeyID' = IF out.consumed THEN nextKeyID + 1
                                                   ELSE nextKeyID
                   /\ IF ~out.ok
                      THEN /\ lastRequest' =
                                 answer(StatusInternalServerError,
                                        "Error creating API key", "")
                           /\ UNCHANGED api_keys
                      ELSE IF ~associateOk
                      THEN /\ lastRequest' =
                                 answer(StatusInternalServerError,
                                        "Error associating API key with user",
                                        "")
                           /\ api_keys' = api_keys \cup {out.row}
                      ELSE /\ lastRequest' = answer(StatusOK, "key", key)
                           /\ api_keys' =
                                 AssociatedRows(api_keys \cup {out.row},
                                                key, userID)
    /\ lastValidate' = NoValidate
    /\ lastKeyDelete' = NoKeyDelete
    /\ lastKeyOp' = NoKeyOp
    /\ UNCHANGED <<now, jwtVars, storeVars, syncVars, authVars, callVars>>

InitKeyAdmin ==
    /\ IdleReq
    /\ IdleCalls
    /\ now = StartTime
    /\ api_keys \in {{}} \cup {{r} : r \in ExistingKeyRows}
    /\ nextKeyID = 2
    /\ lastValidate = NoValidate
    /\ lastKeyDelete = NoKeyDelete
    /\ lastKeyOp = NoKeyOp
    /\ lastGenerate = NoGenerate
    /\ IdleJWT
    /\ IdleStore
    /\ IdleSyncVars
    /\ IdleAuth

NextKeyAdmin ==
    \/ \E decodeOk \in BOOLEAN, days \in 0 .. MaxExpiryDays,
          userID \in AthleteIDs :
          CreateKeyRequest(decodeOk, "new", days, userID)
    \/ \E key \in KeyMaterial : ValidateAPIKeyCall(key)
    \/ \E id \in 1 .. MaxKeyID : DeleteAPIKey(id)

SpecKeyAdmin == InitKeyAdmin /\ [][NextKeyAdmin]_vars

\* C29: a step leaves a new valid key row in the table only if it is a
\* request to POST /admin/keys that was answered 200 with that key: a
\* request answered with an error adds no valid key.
C29_KeyStoredOnlyIfReturned ==
    [][\A r \in api_keys' \ api_keys :
          KeyRowValid(r, now) =>
              /\ lastRequest'.route = "keys"
              /\ lastRequest'.status = StatusOK
              /\ lastRequest'.key = r.key]_vars

-----------------------------------------------------------------------------
(* Claims on a refused authorization code *)

\* the callback that has just been answered had its exchange refused
ExchangeFailed(cb) ==
    cb.called /\ cb.code # "" /\ cb.status = StatusInternalServerError

\* C30: a callback whose exchange is refused leaves the client's token, the
\* configured token and table users as they were, and issues no session
\* token.
C30_FailedExchangeChangesNothing ==
    [][ExchangeFailed(lastCallback') =>
           /\ clientToken' = clientToken
           /\ configToken' = configToken
           /\ users' = users
           /\ lastIssue' = lastIssue
           /\ lastCallback'.token = NoToken]_vars

\* an exchange has been refused after an earlier one was granted: the token
\* and the row of the earlier one are in place
C30_Witness ==
    /\ ExchangeFailed(lastCallback)
    /\ clientToken # NoAccessToken
    /\ configToken = clientToken
    /\ users # {}
    /\ lastIssue.called

====
